---- MODULE Spec2Model ----
(***************************************************************************)
(* bpfstream: the streaming parse-and-dispatch engine.                     *)
(*                                                                         *)
(* One input (a sequence of newline-delimited units) is processed by the   *)
(* Fast-Path backend (SimpleLineParser.ParseLines, simpleParseThenAppend)  *)
(* and by the Structured backend (NDJSONParser.ParseStream and its domain  *)
(* handlers, jsonParseThenAppend).  Text is a sequence of one-character    *)
(* strings; the literal head of an envelope is kept as a few multi-        *)
(* character atoms, everything after it is one character per element, so   *)
(* that the Fast-Path parser's prefix match and fixed-length suffix cut    *)
(* are computed on the text and the Structured parser works on the decoded *)
(* JSON value of the same unit.                                            *)
(***************************************************************************)
EXTENDS Integers, Sequences, FiniteSets, TLC

VARIABLES
    pipe,      \* the pipeline that runs: "lines", "vfs", "net", "proc", "mem", "syscall"
               \* (raw records), or a domain's count pipeline, "vfs count", ..
    input,     \* the input stream: a sequence of units, one per line
    failAt,    \* the number of the handler / AppendRow call that returns an error (0: none)
    simple,    \* the Fast-Path call (ParseLines, simpleParseThenAppend)
    json,      \* the Structured call (ParseStream, jsonParseThenAppend)
    ndRead,    \* ParseNDStream: number of lines its reader has consumed
    ndEnd,     \* ParseNDStream: an item with an error has been forwarded
    res,       \* the res channel: the queue of Stream items
    resClosed, \* the res channel is closed
    reuse,     \* the reuse channel: number of ParsedJson values in it
    jHold,     \* the Structured call holds a processed chunk it has yet to hand back
    main,      \* the process: main() around the command that runs the Structured call
    alg,       \* count snapshots a, b, c of one domain and what Add and Total made of them
    dec        \* one call of a domain's HandleLogfmt: its key, its raw value, what it returned

\* simple and json are records:
\*   stat     "run", "ok" (returned nil), "err" (returned an error), "panic", "off"
\*   err      the error returned
\*   at       index of the unit whose processing returned the error (0: no unit's)
\*   start    StartTime / startTime
\*   pos      index of the last unit the loop body (the ForEach callback) ran on
\*   calls    the invocations of the handler (of the printf branch where the
\*            dispatch is inline), [i |-> unit, type |-> message type]
\*   rows     the payloads / records the handler / sink accepted
\*   appends  the number of handler / AppendRow calls made
\*   event, total, intervalCount   (count pipelines) the snapshot of the last map
\*            message, totalEvent and intervalCount
vars == <<pipe, input, failAt, simple, json, ndRead, ndEnd, res, resClosed, reuse, jHold,
          main, alg, dec>>

(***************************************************************************)
(* Bounds of the model.                                                    *)
(***************************************************************************)
MaxLines == 3

(***************************************************************************)
(* Characters and the library conversions the code calls.                  *)
(***************************************************************************)
BS == "\\"
DQ == "\""
SQ == "'"
NL == "\n"
SP == " "

DecDigits == {"0", "1", "2", "3", "4", "5", "6", "7", "8", "9"}

DigitVal(c) ==
    CASE c = "0" -> 0 [] c = "1" -> 1 [] c = "2" -> 2 [] c = "3" -> 3
      [] c = "4" -> 4 [] c = "5" -> 5 [] c = "6" -> 6 [] c = "7" -> 7
      [] c = "8" -> 8 [] c = "9" -> 9 [] c \in {"a", "A"} -> 10
      [] c \in {"b", "B"} -> 11 [] c \in {"c", "C"} -> 12
      [] c \in {"d", "D"} -> 13 [] c \in {"e", "E"} -> 14
      [] c \in {"f", "F"} -> 15 [] OTHER -> 99

Front(s) == SubSeq(s, 1, Len(s) - 1)
Last(s) == s[Len(s)]
Drop(s, n) == SubSeq(s, n + 1, Len(s))

RECURSIVE BaseVal(_, _)
BaseVal(s, base) ==
    IF s = <<>> THEN 0 ELSE BaseVal(Front(s), base) * base + DigitVal(Last(s))

AllInBase(s, base) == Len(s) > 0 /\ \A i \in 1..Len(s) : DigitVal(s[i]) < base

\* strconv.ParseUint(s, base, bitSize).  base 0 takes the base from the prefix
\* (0x, 0b, 0o, a leading 0).  A value out of the 16-bit range is a range error
\* that still returns the largest value; 64-bit values stay inside the model's
\* numbers.  Underscores (base 0 only) are not in the model's alphabet.
MaxUint16 == 65535

PrefixBase(s) ==
    IF Len(s) >= 2 /\ s[1] = "0" /\ s[2] \in {"x", "X"} THEN <<16, 2>>
    ELSE IF Len(s) >= 2 /\ s[1] = "0" /\ s[2] \in {"b", "B"} THEN <<2, 2>>
    ELSE IF Len(s) >= 2 /\ s[1] = "0" /\ s[2] \in {"o", "O"} THEN <<8, 2>>
    ELSE IF Len(s) >= 2 /\ s[1] = "0" THEN <<8, 1>>
    ELSE <<10, 0>>

\* A conversion that does not look at the bit size.
ParseUint_AnySize(s, base, bitSize) ==
    LET b == IF base = 0 THEN PrefixBase(s)[1] ELSE base
        d == IF base = 0 THEN Drop(s, PrefixBase(s)[2]) ELSE s
    IN  IF ~AllInBase(d, b) THEN [ok |-> FALSE, val |-> 0]
        ELSE [ok |-> TRUE, val |-> BaseVal(d, b)]

ParseUint(s, base, bitSize) ==
    LET b == IF base = 0 THEN PrefixBase(s)[1] ELSE base
        d == IF base = 0 THEN Drop(s, PrefixBase(s)[2]) ELSE s
    IN  IF ~AllInBase(d, b) THEN [ok |-> FALSE, val |-> 0]
        ELSE IF bitSize = 16 /\ BaseVal(d, b) > MaxUint16
             THEN [ok |-> FALSE, val |-> MaxUint16]
        ELSE [ok |-> TRUE, val |-> BaseVal(d, b)]

\* strconv.ParseInt(s, 10, 64): an optional sign, then ParseUint.
ParseInt(s) ==
    LET signed == Len(s) > 0 /\ s[1] \in {"+", "-"}
        u == ParseUint(IF signed THEN Drop(s, 1) ELSE s, 10, 64)
    IN  IF ~u.ok THEN [ok |-> FALSE, val |-> 0]
        ELSE [ok |-> TRUE, val |-> IF signed /\ s[1] = "-" THEN 0 - u.val ELSE u.val]

\* time.Time: the zero value, or <<hour, minute, second>> of a parsed time of day
\* (time.Parse gives it the date 1 January of year 0, which is not the zero Time).
ZeroTime == <<>>
IsZero(t) == t = ZeroTime

\* time.Parse(time.TimeOnly, s), layout "15:04:05": a one- or two-digit hour,
\* two-digit minute and second, nothing after (fractional seconds are not in the
\* model's alphabet).  A failed parse returns the zero Time.
TimeParse(s) ==
    LET h1 == Len(s) = 7 /\ s[1] \in DecDigits
        t  == IF h1 THEN <<"0">> \o s ELSE s
        shape == /\ Len(t) = 8
                 /\ t[3] = ":" /\ t[6] = ":"
                 /\ \A i \in {1, 2, 4, 5, 7, 8} : t[i] \in DecDigits
        h == BaseVal(SubSeq(t, 1, 2), 10)
        m == BaseVal(SubSeq(t, 4, 5), 10)
        sec == BaseVal(SubSeq(t, 7, 8), 10)
    IN  IF shape /\ h < 24 /\ m < 60 /\ sec < 60
        THEN [ok |-> TRUE, val |-> <<h, m, sec>>]
        ELSE [ok |-> FALSE, val |-> ZeroTime]

RECURSIVE TrimLeft(_, _)
TrimLeft(s, cut) ==
    IF s # <<>> /\ s[1] \in cut THEN TrimLeft(Drop(s, 1), cut) ELSE s

RECURSIVE TrimRight(_, _)
TrimRight(s, cut) ==
    IF s # <<>> /\ Last(s) \in cut THEN TrimRight(Front(s), cut) ELSE s

\* strings.TrimSpace(s) and strings.Trim(s, cutset)
TrimSpace(s) == TrimRight(TrimLeft(s, {SP, NL, "\t", "\r"}), {SP, NL, "\t", "\r"})
Trim(s, cut) == TrimRight(TrimLeft(s, cut), cut)


RECURSIVE Join(_)
Join(s) == IF s = <<>> THEN "" ELSE s[1] \o Join(Drop(s, 1))

DigitChar(d) ==
    CASE d = 0 -> "0" [] d = 1 -> "1" [] d = 2 -> "2" [] d = 3 -> "3" [] d = 4 -> "4"
      [] d = 5 -> "5" [] d = 6 -> "6" [] d = 7 -> "7" [] d = 8 -> "8" [] OTHER -> "9"

RECURSIVE NatChars(_)
NatChars(n) ==
    IF n < 10 THEN <<DigitChar(n)>> ELSE Append(NatChars(n \div 10), DigitChar(n % 10))

IntChars(n) == IF n < 0 THEN <<"-">> \o NatChars(0 - n) ELSE NatChars(n)

(***************************************************************************)
(* Input units.  A unit is a JSON object {"type": .., "data": ..} given by  *)
(* its decoded value, or a line that is not JSON, given by its text.  The  *)
(* producer writes the value in the wire format (Render); the Fast-Path    *)
(* parser reads that text, the Structured parser the value.                *)
(*   tkind  "str" | "absent" | "num"   the "type" member                   *)
(*   dkind  "str" | "obj" | "absent"   the "data" member                   *)
(*   dstr   the decoded characters of a string data                        *)
(*   dkey, dvk, dint, dvs, dmap   the one member of an object data: its    *)
(*          name, the kind of its value ("int" | "str" | "obj"), and the   *)
(*          value (integer, characters, or the entries of a map object)    *)
(***************************************************************************)
Unit(form, tkind, type, dkind, dstr, dkey, dvk, dint, dvs, dmap, raw) ==
    [form |-> form, tkind |-> tkind, type |-> type, dkind |-> dkind, dstr |-> dstr,
     dkey |-> dkey, dvk |-> dvk, dint |-> dint, dvs |-> dvs, dmap |-> dmap,
     raw |-> raw]

StrMsg(type, s) == Unit("json", "str", type, "str", s, "", "int", 0, <<>>, <<>>, <<>>)
IntMsg(type, key, n) == Unit("json", "str", type, "obj", <<>>, key, "int", n, <<>>, <<>>, <<>>)
TextMsg(type, key, s) == Unit("json", "str", type, "obj", <<>>, key, "str", 0, s, <<>>, <<>>)
MapMsg(type, key, m) == Unit("json", "str", type, "obj", <<>>, key, "obj", 0, <<>>, m, <<>>)
RawLine(text) == Unit("raw", "absent", "", "absent", <<>>, "", "int", 0, <<>>, <<>>, text)

\* The place in the input where reading fails: the reader returns an error, or
\* the line is longer than the scanner's buffer (bufio.ErrTooLong).
ReadFail == Unit("fail", "absent", "", "absent", <<>>, "", "int", 0, <<>>, <<>>, <<>>)

\* The JSON escape of one character of a string.
EscapeChar(c) ==
    CASE c = DQ -> <<BS, DQ>>
      [] c = BS -> <<BS, BS>>
      [] c = NL -> <<BS, "n">>
      [] c = "\t" -> <<BS, "t">>
      [] OTHER -> <<c>>

\* The escapes of the characters one after the other; the text is split in halves
\* to keep the evaluation shallow.
RECURSIVE Escape(_)
Escape(s) ==
    IF s = <<>> THEN <<>>
    ELSE IF Len(s) = 1 THEN EscapeChar(s[1])
    ELSE Escape(SubSeq(s, 1, Len(s) \div 2)) \o Escape(SubSeq(s, Len(s) \div 2 + 1, Len(s)))

JsonString(s) == <<DQ>> \o Escape(s) \o <<DQ>>

RECURSIVE MapText(_)
MapText(m) ==
    IF m = <<>> THEN <<>>
    ELSE JsonString(<<m[1][1]>>) \o <<":", SP>>
         \o (IF m[1][2] = "int" THEN IntChars(m[1][3]) ELSE JsonString(<<"x">>))
         \o (IF Len(m) > 1 THEN <<",", SP>> ELSE <<>>) \o MapText(Drop(m, 1))

ValueText(u) ==
    CASE u.dvk = "int" -> IntChars(u.dint)
      [] u.dvk = "str" -> JsonString(u.dvs)
      [] OTHER -> <<"{">> \o MapText(u.dmap) \o <<"}">>

\* The text of a unit as the tracer writes it: `{"type": "T", "data": D}`.  The
\* literal head is a few atoms, the payload and the closing characters follow one
\* character per element.
Render(u) ==
    IF u.form = "raw" THEN u.raw
    ELSE IF u.dkind = "absent" THEN <<"{\"type\": \"", u.type, DQ, "}">>
    ELSE (IF u.tkind = "str" THEN <<"{\"type\": \"", u.type, "\", \"data\": ">>
          ELSE IF u.tkind = "num" THEN <<"{\"type\": ", "1", ", \"data\": ">>
          ELSE <<"{\"data\": ">>)
         \o (CASE u.dkind = "str" -> JsonString(u.dstr)
               [] u.dkind = "obj" -> <<"{\"", u.dkey, "\": ">> \o ValueText(u) \o <<"}">>
               [] OTHER -> <<>>)
         \o <<"}">>

(***************************************************************************)
(* logfmt.Unmarshal (github.com/kr/logfmt): the scanner walks the payload  *)
(* and calls HandleLogfmt for every key and value it finds; it keeps the   *)
(* first error and goes on scanning.  An identifier character is any       *)
(* character above the space other than the double quote and the equals.   *)
(***************************************************************************)
Ident(c) == c \notin {SP, NL, "\t", "\r", DQ, "="}

RECURSIVE Unquote(_)
Unquote(s) ==
    IF s = <<>> THEN <<>>
    ELSE IF s[1] = BS /\ Len(s) >= 2 THEN <<s[2]>> \o Unquote(Drop(s, 2))
    ELSE <<s[1]>> \o Unquote(Drop(s, 1))

\* The scanner steps over a run of characters one by one: garbage up to an
\* identifier character, a key or a bare value up to a character that is none,
\* a quoted value up to a backslash or the closing quote.
Leaves(st, c) ==
    CASE st = "garbage" -> Ident(c)
      [] st \in {"key", "ivalue"} -> ~Ident(c)
      [] OTHER -> c \in {BS, DQ}

\* The first position from i on where the scanner leaves state st, Len(data) + 1
\* at the end of the payload.
RECURSIVE RunEnd(_, _, _)
RunEnd(data, i, st) ==
    IF i > Len(data) THEN i
    ELSE IF Leaves(st, data[i]) THEN i
    ELSE RunEnd(data, i + 1, st)

\* The pairs <<key, value>> in the order the scanner hands them over; a key with
\* no value comes with an empty value; <<>> as a key marks an unterminated string.
\* LogfmtAt is the scanner in state st at position i, where it leaves the state.
RECURSIVE LogfmtScan(_, _, _, _, _, _)
LogfmtAt(data, i, st, m, key, acc, word) ==
    LET n == Len(data)
    IN  CASE st = "garbage" ->
               IF i > n THEN acc
               ELSE LogfmtScan(data, i + 1, "key", i, <<>>, acc)
          [] st = "key" ->
               IF i > n THEN Append(acc, <<word, <<>>>>)
               ELSE IF data[i] = "=" THEN LogfmtScan(data, i + 1, "equal", m, word, acc)
               ELSE LogfmtScan(data, i + 1, "garbage", m, word, Append(acc, <<word, <<>>>>))
          [] st = "equal" ->
               IF i > n THEN Append(acc, <<key, <<>>>>)
               ELSE IF Ident(data[i]) THEN LogfmtScan(data, i + 1, "ivalue", i, key, acc)
               ELSE IF data[i] = DQ THEN LogfmtScan(data, i + 1, "qvalue", i, key, acc)
               ELSE LogfmtScan(data, i + 1, "garbage", m, key, Append(acc, <<key, <<>>>>))
          [] st = "ivalue" ->
               IF i > n THEN Append(acc, <<key, word>>)
               ELSE LogfmtScan(data, i + 1, "garbage", m, key, Append(acc, <<key, word>>))
          [] OTHER ->
               IF i > n THEN Append(acc, <<<<>>, <<>>>>)
               ELSE IF data[i] = BS THEN LogfmtScan(data, i + 2, "qvalue", m, key, acc)
               ELSE LogfmtScan(data, i + 1, "garbage", m, key,
                               Append(acc, <<key, Unquote(SubSeq(data, m + 1, i - 1))>>))

LogfmtWord(data, i, st, m, key, acc) ==
    LogfmtAt(data, i, st, m, key, acc, SubSeq(data, m, i - 1))

LogfmtScan(data, i, st, m, key, acc) ==
    CASE st = "equal" -> LogfmtAt(data, i, st, m, key, acc, <<>>)
      [] st \in {"key", "ivalue"} -> LogfmtWord(data, RunEnd(data, i, st), st, m, key, acc)
      [] OTHER -> LogfmtAt(data, RunEnd(data, i, st), st, m, key, acc, <<>>)

LogfmtPairs(data) == LogfmtScan(data, 1, "garbage", 1, <<>>, <<>>)


(***************************************************************************)
(* The raw event records and their field decoders (HandleLogfmt).  A       *)
(* decoder call returns the record, the error ("" for nil) and whether it  *)
(* panicked (a slice out of range).  An assignment `x, err = Parse(..)`    *)
(* stores the value Parse returns also when it fails.                      *)
(***************************************************************************)
Ret(e, err) == [e |-> e, err |-> err, panic |-> FALSE]
Crash(e) == [e |-> e, err |-> "", panic |-> TRUE]
NumErr(r) == IF r.ok THEN "" ELSE "strconv: invalid number"
Quotes == {SQ, DQ}

\* e.f, err = strconv.Parse..(v, ..)  /  e.f = v  /  e.f = uint16(port)
\* An assignment that drops the error of the conversion.
Num_DropsError(e, f, r) == Ret([e EXCEPT ![f] = r.val], "")

Num(e, f, r) == Ret([e EXCEPT ![f] = r.val], NumErr(r))
Str(e, f, v) == Ret([e EXCEPT ![f] = v], "")
Port(e, f, r) == Ret([e EXCEPT ![f] = r.val % (MaxUint16 + 1)], NumErr(r))

vfsEvent ==
    [Timestamp |-> 0, Probe |-> <<>>, Tid |-> 0, ReturnValue |-> 0, Path |-> <<>>,
     Inode |-> 0, Offset |-> 0, Length |-> 0]

vfsEventHandleLogfmt(e, k, v) ==
    CASE k = "ts" -> Num(e, "Timestamp", ParseUint(v, 10, 64))
      [] k = "fn" -> Str(e, "Probe", v)
      [] k = "tid" -> Num(e, "Tid", ParseUint(v, 10, 64))
      [] k = "rc" -> Num(e, "ReturnValue", ParseInt(v))
      [] k = "path" -> IF Len(v) < 2 THEN Crash(e)
                       ELSE Str(e, "Path", SubSeq(v, 2, Len(v) - 1))
      [] k = "inode" -> Num(e, "Inode", ParseUint(v, 10, 64))
      [] k = "offset" -> Num(e, "Offset", ParseUint(v, 10, 64))
      [] k = "len" -> Num(e, "Length", ParseUint(v, 10, 64))
      [] OTHER -> Ret(e, "unknown field")

netRawEvent ==
    [Timestamp |-> 0, Probe |-> <<>>, Tid |-> 0, Comm |-> <<>>, SrcAddr |-> <<>>,
     SrcPort |-> 0, DstAddr |-> <<>>, DstPort |-> 0, Bytes |-> 0, Protocol |-> <<>>]

netRawEventHandleLogfmt(e, k, v) ==
    CASE k = "ts" -> Num(e, "Timestamp", ParseUint(v, 10, 64))
      [] k = "fn" -> Str(e, "Probe", v)
      [] k = "tid" -> Num(e, "Tid", ParseUint(v, 10, 64))
      [] k = "comm" -> Str(e, "Comm", Trim(v, Quotes))
      [] k = "saddr" -> Str(e, "SrcAddr", Trim(v, Quotes))
      [] k = "sport" -> Port(e, "SrcPort", ParseUint(v, 10, 16))
      [] k = "daddr" -> Str(e, "DstAddr", Trim(v, Quotes))
      [] k = "dport" -> Port(e, "DstPort", ParseUint(v, 10, 16))
      [] k = "bytes" -> Num(e, "Bytes", ParseUint(v, 10, 64))
      [] k = "proto" -> Str(e, "Protocol", v)
      [] OTHER -> Ret(e, "unknown net field")

procRawEvent ==
    [Timestamp |-> 0, Probe |-> <<>>, Pid |-> 0, Ppid |-> 0, Tid |-> 0, Comm |-> <<>>,
     Cmdline |-> <<>>, ExitCode |-> 0]

procRawEventHandleLogfmt(e, k, v) ==
    CASE k = "ts" -> Num(e, "Timestamp", ParseUint(v, 10, 64))
      [] k = "fn" -> Str(e, "Probe", v)
      [] k = "pid" -> Num(e, "Pid", ParseUint(v, 10, 64))
      [] k = "ppid" -> Num(e, "Ppid", ParseUint(v, 10, 64))
      [] k = "tid" -> Num(e, "Tid", ParseUint(v, 10, 64))
      [] k = "comm" -> Str(e, "Comm", Trim(v, Quotes))
      [] k = "cmdline" -> Str(e, "Cmdline", Trim(v, Quotes))
      [] k = "exit_code" -> Num(e, "ExitCode", ParseInt(v))
      [] OTHER -> Ret(e, "unknown proc field")

memRawEvent ==
    [Timestamp |-> 0, Probe |-> <<>>, Pid |-> 0, Tid |-> 0, Comm |-> <<>>,
     Address |-> 0, Size |-> 0, Type |-> <<>>]

memRawEventHandleLogfmt(e, k, v) ==
    CASE k = "ts" -> Num(e, "Timestamp", ParseUint(v, 10, 64))
      [] k = "fn" -> Str(e, "Probe", v)
      [] k = "pid" -> Num(e, "Pid", ParseUint(v, 10, 64))
      [] k = "tid" -> Num(e, "Tid", ParseUint(v, 10, 64))
      [] k = "comm" -> Str(e, "Comm", Trim(v, Quotes))
      [] k = "addr" -> Num(e, "Address", ParseUint(v, 0, 64))
      [] k = "size" -> Num(e, "Size", ParseUint(v, 10, 64))
      [] k = "type" -> Str(e, "Type", v)
      [] OTHER -> Ret(e, "unknown mem field")

syscallRawEvent ==
    [Timestamp |-> 0, Pid |-> 0, Tid |-> 0, Comm |-> <<>>, SyscallNr |-> 0,
     SyscallName |-> <<>>, Arg0 |-> 0, Arg1 |-> 0, Arg2 |-> 0, Arg3 |-> 0, Arg4 |-> 0,
     Arg5 |-> 0, ReturnValue |-> 0]

\* The six argN cases are the same statement on six fields.
syscallRawEventHandleLogfmt(e, k, v) ==
    CASE k = "ts" -> Num(e, "Timestamp", ParseUint(v, 10, 64))
      [] k = "pid" -> Num(e, "Pid", ParseUint(v, 10, 64))
      [] k = "tid" -> Num(e, "Tid", ParseUint(v, 10, 64))
      [] k = "comm" -> Str(e, "Comm", Trim(v, Quotes))
      [] k = "nr" -> Num(e, "SyscallNr", ParseUint(v, 10, 64))
      [] k = "name" -> Str(e, "SyscallName", v)
      [] k \in {"arg0", "arg1", "arg2", "arg3", "arg4", "arg5"} ->
             Num(e, CASE k = "arg0" -> "Arg0" [] k = "arg1" -> "Arg1" [] k = "arg2" -> "Arg2"
                      [] k = "arg3" -> "Arg3" [] k = "arg4" -> "Arg4" [] OTHER -> "Arg5",
                 ParseUint(v, 0, 64))
      [] k = "ret" -> Num(e, "ReturnValue", ParseInt(v))
      [] OTHER -> Ret(e, "unknown syscall field")

\* The decoder of a pipeline's domain, and the zero record it decodes into.
\* (k := string(key), v := string(val))
HandleLogfmt(dom, e, k, v) ==
    CASE dom = "vfs" -> vfsEventHandleLogfmt(e, k, v)
      [] dom = "net" -> netRawEventHandleLogfmt(e, k, v)
      [] dom = "proc" -> procRawEventHandleLogfmt(e, k, v)
      [] dom = "mem" -> memRawEventHandleLogfmt(e, k, v)
      [] OTHER -> syscallRawEventHandleLogfmt(e, k, v)

ZeroEvent(dom) ==
    CASE dom = "vfs" -> vfsEvent
      [] dom = "net" -> netRawEvent
      [] dom = "proc" -> procRawEvent
      [] dom = "mem" -> memRawEvent
      [] OTHER -> syscallRawEvent

RECURSIVE UnmarshalPairs(_, _, _)
\* saveError: the first error is the one Unmarshal returns.
SaveError(st, r) ==
    [e |-> r.e, err |-> IF st.err = "" THEN r.err ELSE st.err, panic |-> r.panic]

UnmarshalPairs(dom, pairs, st) ==
    IF pairs = <<>> \/ st.panic THEN st
    ELSE UnmarshalPairs(dom, Drop(pairs, 1),
                        SaveError(st, IF pairs[1][1] = <<>>
                                      THEN Ret(st.e, "logfmt: unterminated string")
                                      ELSE HandleLogfmt(dom, st.e, Join(pairs[1][1]),
                                                        pairs[1][2])))

\* logfmt.Unmarshal(data, &e)
Unmarshal(dom, data, e) == UnmarshalPairs(dom, LogfmtPairs(data), Ret(e, ""))


(***************************************************************************)
(* The state of one stream-processing call and the sink.                   *)
(***************************************************************************)
NewCall(stat) ==
    [stat |-> stat, err |-> "", at |-> 0, start |-> ZeroTime, pos |-> 0,
     calls |-> <<>>, rows |-> <<>>, appends |-> 0,
     event |-> <<>>, total |-> <<>>, intervalCount |-> 0, pool |-> <<>>,
     live |-> FALSE, prints |-> <<>>]

Fail(b, e) == [b EXCEPT !.stat = "err", !.err = e, !.at = b.pos]
Panic(b) == [b EXCEPT !.stat = "panic", !.at = b.pos]
Called(b, i, type) == [b EXCEPT !.calls = Append(@, [i |-> i, type |-> type])]

\* The sink's AppendRow (and a caller-supplied handler's own work): the call
\* number failAt returns an error, every other call stores its argument.
appendRow(b, e) ==
    IF b.appends + 1 = failAt
    THEN [b |-> [b EXCEPT !.appends = @ + 1], err |-> "append row failed"]
    ELSE [b |-> [b EXCEPT !.appends = @ + 1, !.rows = Append(@, e)], err |-> ""]

\* A caller that drops the error AppendRow returns.
Returned_Ignored(r) == r.b

\* `err = appendRow(e); if err != nil { return err }`, r the outcome of appendRow.
Returned(r) == IF r.err # "" THEN Fail(r.b, r.err) ELSE r.b

\* A caller that appends the record without looking at Unmarshal's error.
Decoded_AppendsOnError(b, d, wrap) ==
    IF d.panic THEN Panic(b) ELSE Returned(appendRow(b, d.e))

\* `err = logfmt.Unmarshal(buf, e); if err != nil { return .. }; err = appendRow(e)`,
\* d the outcome of Unmarshal, wrap the text the error is wrapped in.
Decoded(b, d, wrap) ==
    IF d.panic THEN Panic(b)
    ELSE IF d.err # "" THEN Fail(b, wrap \o d.err)
    ELSE Returned(appendRow(b, d.e))

(***************************************************************************)
(* Fast-Path parser.                                                       *)
(***************************************************************************)
EnvHead(type) == <<"{\"type\": \"", type, "\", \"data\": ">>
attachedProbeKeyword == EnvHead("attached_probes") \o <<"{\"", "probes", "\": ">>
startTimeKeyword == EnvHead("time") \o <<DQ>>
printfKeyword == EnvHead("printf") \o <<DQ>>
lostEventsKeyword == EnvHead("lost_events") \o <<"{\"", "events", "\": ">>

HasPrefix(line, kw) == Len(line) >= Len(kw) /\ SubSeq(line, 1, Len(kw)) = kw

\* line[len(kw) : len(line)-n]; out of range when the line is shorter than
\* keyword plus suffix.
InRange(line, kw, n) == Len(kw) <= Len(line) - n
Slice(line, kw, n) == SubSeq(line, Len(kw) + 1, Len(line) - n)

\* A caller-supplied LineHandler: it records the payload it is given.
LineHandler(b, i, data) == Returned(appendRow(Called(b, i, "printf"), data))

\* A scanner loop that returns an error for a line of unknown format.
UnknownLine_Fails(b) == Fail(b, "unknown line format")

\* The last branch of the scanner loops: `log.Warn()..Msg("Unknown line format,
\* skipping")`, and the loop goes on.
UnknownLine(b) == b

\* The body of the scanner loop of SimpleLineParser.ParseLines, for line i.
ParseLines(b, i, line) ==
    IF HasPrefix(line, attachedProbeKeyword) THEN
        IF ~InRange(line, attachedProbeKeyword, 2) THEN Panic(b)
        ELSE LET probes == ParseUint(Slice(line, attachedProbeKeyword, 2), 10, 64)
             IN  IF ~probes.ok THEN Fail(b, NumErr(probes))
                 ELSE IF probes.val <= 0 THEN Fail(b, "probes not attached")
                 ELSE b
    ELSE IF HasPrefix(line, startTimeKeyword) THEN
        IF ~InRange(line, startTimeKeyword, 4) THEN Panic(b)
        ELSE LET startTime == TimeParse(Slice(line, startTimeKeyword, 4))
             IN  IF ~startTime.ok THEN Fail(b, "parsing time")
                 ELSE [b EXCEPT !.start = startTime.val]
    ELSE IF HasPrefix(line, printfKeyword) THEN
        IF ~InRange(line, printfKeyword, 2) THEN Panic(b)
        ELSE LineHandler(b, i, Slice(line, printfKeyword, 2))
    ELSE IF HasPrefix(line, lostEventsKeyword) THEN
        IF ~InRange(line, lostEventsKeyword, 2) THEN Panic(b)
        ELSE LET lostEvents == ParseUint(Slice(line, lostEventsKeyword, 2), 10, 64)
             IN  IF ~lostEvents.ok THEN Fail(b, NumErr(lostEvents)) ELSE b
    ELSE UnknownLine(b)

\* The body of the scanner loop of simpleParseThenAppend, for line i.  The start
\* time is a local of the branch: nothing is retained.
simpleParseThenAppend(b, i, line) ==
    IF HasPrefix(line, attachedProbeKeyword) THEN
        IF ~InRange(line, attachedProbeKeyword, 2) THEN Panic(b)
        ELSE LET probes == ParseUint(Slice(line, attachedProbeKeyword, 2), 10, 64)
             IN  IF ~probes.ok THEN Fail(b, NumErr(probes))
                 ELSE IF probes.val <= 0 THEN Fail(b, "probes not attached")
                 ELSE b
    ELSE IF HasPrefix(line, startTimeKeyword) THEN
        IF ~InRange(line, startTimeKeyword, 4) THEN Panic(b)
        ELSE LET startTime == TimeParse(Slice(line, startTimeKeyword, 4))
             IN  IF ~startTime.ok THEN Fail(b, "parsing time") ELSE b
    ELSE IF HasPrefix(line, printfKeyword) THEN
        IF ~InRange(line, printfKeyword, 2) THEN Panic(b)
        ELSE Decoded(Called(b, i, "printf"),
                     Unmarshal("vfs", Slice(line, printfKeyword, 2), vfsEvent), "")
    ELSE IF HasPrefix(line, lostEventsKeyword) THEN
        IF ~InRange(line, lostEventsKeyword, 2) THEN Panic(b)
        ELSE LET lostEvents == ParseUint(Slice(line, lostEventsKeyword, 2), 10, 64)
             IN  IF ~lostEvents.ok THEN Fail(b, NumErr(lostEvents)) ELSE b
    ELSE UnknownLine(b)


(***************************************************************************)
(* Count snapshots: Event (vfs), NetCountEvent, ProcCountEvent,            *)
(* MemCountEvent are structs of int64 counters, SyscallCountEvent is a map *)
(* from a syscall's name to an int64 counter.  The counters are kept at    *)
(* the width CounterBits in place of 64; Go's integer addition wraps       *)
(* around.                                                                 *)
(***************************************************************************)
CounterBits == 11
Modulus == 2 ^ CounterBits
MaxInt64 == (Modulus \div 2) - 1
MinInt64 == 0 - (Modulus \div 2)

\* The value an int64 holds after an addition whose exact result is x.
Int64(x) == ((x - MinInt64) % Modulus) + MinInt64

\* s[1] + s[2] + .. as Go evaluates it: left to right, each sum an int64.
RECURSIVE Sum64(_)
Sum64(s) == IF s = <<>> THEN 0 ELSE Int64(Sum64(Front(s)) + Last(s))

Event ==
    [Create |-> 0, Open |-> 0, Read |-> 0, ReadLink |-> 0, ReadV |-> 0, Write |-> 0,
     WriteV |-> 0, FSync |-> 0]
NetCountEvent ==
    [TCPConnect |-> 0, TCPAccept |-> 0, TCPClose |-> 0, UDPSend |-> 0, UDPRecv |-> 0,
     SockCreate |-> 0, SockClose |-> 0]
ProcCountEvent == [Exec |-> 0, Fork |-> 0, Exit |-> 0, Clone |-> 0]
MemCountEvent == [Mmap |-> 0, Munmap |-> 0, Brk |-> 0, PageFault |-> 0]
\* The Counts map of a SyscallCountEvent, as NewSyscallCountEvent makes it.
NewSyscallCountEvent == [k \in {} |-> 0]

\* An Add that stores the other snapshot's counters in place of adding them.
EventAdd_Overwrite(e, other) == other

EventAdd(e, other) ==
    [Create |-> Int64(e.Create + other.Create),
     Open |-> Int64(e.Open + other.Open),
     Read |-> Int64(e.Read + other.Read),
     ReadLink |-> Int64(e.ReadLink + other.ReadLink),
     ReadV |-> Int64(e.ReadV + other.ReadV),
     Write |-> Int64(e.Write + other.Write),
     WriteV |-> Int64(e.WriteV + other.WriteV),
     FSync |-> Int64(e.FSync + other.FSync)]

\* A Total that leaves the last counter out.
EventTotal_NoFSync(e) ==
    Sum64(<<e.Create, e.Open, e.Read, e.ReadLink, e.ReadV, e.Write, e.WriteV>>)

EventTotal(e) ==
    Sum64(<<e.Create, e.Open, e.Read, e.ReadLink, e.ReadV, e.Write, e.WriteV, e.FSync>>)

NetCountEventAdd(e, other) ==
    [TCPConnect |-> Int64(e.TCPConnect + other.TCPConnect),
     TCPAccept |-> Int64(e.TCPAccept + other.TCPAccept),
     TCPClose |-> Int64(e.TCPClose + other.TCPClose),
     UDPSend |-> Int64(e.UDPSend + other.UDPSend),
     UDPRecv |-> Int64(e.UDPRecv + other.UDPRecv),
     SockCreate |-> Int64(e.SockCreate + other.SockCreate),
     SockClose |-> Int64(e.SockClose + other.SockClose)]

NetCountEventTotal(e) ==
    Sum64(<<e.TCPConnect, e.TCPAccept, e.TCPClose, e.UDPSend, e.UDPRecv, e.SockCreate,
            e.SockClose>>)

ProcCountEventAdd(e, other) ==
    [Exec |-> Int64(e.Exec + other.Exec),
     Fork |-> Int64(e.Fork + other.Fork),
     Exit |-> Int64(e.Exit + other.Exit),
     Clone |-> Int64(e.Clone + other.Clone)]

ProcCountEventTotal(e) == Sum64(<<e.Exec, e.Fork, e.Exit, e.Clone>>)

MemCountEventAdd(e, other) ==
    [Mmap |-> Int64(e.Mmap + other.Mmap),
     Munmap |-> Int64(e.Munmap + other.Munmap),
     Brk |-> Int64(e.Brk + other.Brk),
     PageFault |-> Int64(e.PageFault + other.PageFault)]

MemCountEventTotal(e) == Sum64(<<e.Mmap, e.Munmap, e.Brk, e.PageFault>>)

\* `for k, v := range other.Counts { e.Counts[k] += v }`: a name e does not hold
\* yet starts from the zero value.
SyscallCountEventAdd(e, other) ==
    [k \in (DOMAIN e) \cup (DOMAIN other) |->
        IF k \in DOMAIN other
        THEN Int64((IF k \in DOMAIN e THEN e[k] ELSE 0) + other[k])
        ELSE e[k]]

\* The orders in which a range over a map with these names can go.
Orders(names) ==
    {o \in [1..Cardinality(names) -> names] : \A k \in names : \E i \in DOMAIN o : o[i] = k}

\* `for _, v := range e.Counts { total += v }` when the range goes in this order.
SyscallCountEventTotal(e, order) == Sum64([i \in DOMAIN order |-> e[order[i]]])

CountDomains == {"vfs", "net", "proc", "mem", "syscall"}

ZeroCount(dom) ==
    CASE dom = "vfs" -> Event
      [] dom = "net" -> NetCountEvent
      [] dom = "proc" -> ProcCountEvent
      [] dom = "mem" -> MemCountEvent
      [] OTHER -> NewSyscallCountEvent

\* e.Add(other): the receiver after the call.
Add(dom, e, other) ==
    CASE dom = "vfs" -> EventAdd(e, other)
      [] dom = "net" -> NetCountEventAdd(e, other)
      [] dom = "proc" -> ProcCountEventAdd(e, other)
      [] dom = "mem" -> MemCountEventAdd(e, other)
      [] OTHER -> SyscallCountEventAdd(e, other)

\* The orders a Total over e can take: one for a struct, every order for a map.
TotalOrders(dom, e) == IF dom = "syscall" THEN Orders(DOMAIN e) ELSE {<<>>}

\* e.Total()
Total(dom, e, order) ==
    CASE dom = "vfs" -> EventTotal(e)
      [] dom = "net" -> NetCountEventTotal(e)
      [] dom = "proc" -> ProcCountEventTotal(e)
      [] dom = "mem" -> MemCountEventTotal(e)
      [] OTHER -> SyscallCountEventTotal(e, order)

\* The `switch m.Name` of each Fill: the counter a name sets.
EventFillField(e, name, value) ==
    CASE name = "vfs_create" -> [e EXCEPT !.Create = value]
      [] name = "vfs_open" -> [e EXCEPT !.Open = value]
      [] name = "vfs_read" -> [e EXCEPT !.Read = value]
      [] name = "vfs_readlink" -> [e EXCEPT !.ReadLink = value]
      [] name = "vfs_readv" -> [e EXCEPT !.ReadV = value]
      [] name = "vfs_write" -> [e EXCEPT !.Write = value]
      [] name = "vfs_writev" -> [e EXCEPT !.WriteV = value]
      [] name = "vfs_fsync" -> [e EXCEPT !.FSync = value]
      [] OTHER -> e

NetCountEventFillField(e, name, value) ==
    CASE name = "tcp_connect" -> [e EXCEPT !.TCPConnect = value]
      [] name = "tcp_accept" -> [e EXCEPT !.TCPAccept = value]
      [] name = "tcp_close" -> [e EXCEPT !.TCPClose = value]
      [] name = "udp_send" -> [e EXCEPT !.UDPSend = value]
      [] name = "udp_recv" -> [e EXCEPT !.UDPRecv = value]
      [] name = "sock_create" -> [e EXCEPT !.SockCreate = value]
      [] name = "sock_close" -> [e EXCEPT !.SockClose = value]
      [] OTHER -> e

\* A Fill that adds up the values of a name and its alias.
ProcCountEventFillField_Sums(e, name, value) ==
    CASE name \in {"exec", "sched_process_exec"} -> [e EXCEPT !.Exec = Int64(@ + value)]
      [] name \in {"fork", "sched_process_fork"} -> [e EXCEPT !.Fork = Int64(@ + value)]
      [] name \in {"exit", "sched_process_exit"} -> [e EXCEPT !.Exit = Int64(@ + value)]
      [] name = "clone" -> [e EXCEPT !.Clone = value]
      [] OTHER -> e

ProcCountEventFillField(e, name, value) ==
    CASE name \in {"exec", "sched_process_exec"} -> [e EXCEPT !.Exec = value]
      [] name \in {"fork", "sched_process_fork"} -> [e EXCEPT !.Fork = value]
      [] name \in {"exit", "sched_process_exit"} -> [e EXCEPT !.Exit = value]
      [] name = "clone" -> [e EXCEPT !.Clone = value]
      [] OTHER -> e

MemCountEventFillField(e, name, value) ==
    CASE name \in {"mmap", "do_mmap"} -> [e EXCEPT !.Mmap = value]
      [] name \in {"munmap", "do_munmap"} -> [e EXCEPT !.Munmap = value]
      [] name \in {"brk", "do_brk"} -> [e EXCEPT !.Brk = value]
      [] name \in {"page_fault", "handle_mm_fault"} -> [e EXCEPT !.PageFault = value]
      [] OTHER -> e

\* e.Counts[m.Name] = value
SyscallCountEventFillField(e, name, value) ==
    [k \in (DOMAIN e) \cup {name} |-> IF k = name THEN value ELSE e[k]]

\* A Fill that adds the value of a name it does not know to the first counter.
FillField_CountsUnknown(dom, e, name, value) ==
    CASE dom = "vfs" ->
            IF EventFillField(e, name, value) = e /\ value # e.Create
            THEN [e EXCEPT !.Create = Int64(@ + value)]
            ELSE EventFillField(e, name, value)
      [] dom = "net" -> NetCountEventFillField(e, name, value)
      [] dom = "proc" -> ProcCountEventFillField(e, name, value)
      [] dom = "mem" -> MemCountEventFillField(e, name, value)
      [] OTHER -> SyscallCountEventFillField(e, name, value)

FillField(dom, e, name, value) ==
    CASE dom = "vfs" -> EventFillField(e, name, value)
      [] dom = "net" -> NetCountEventFillField(e, name, value)
      [] dom = "proc" -> ProcCountEventFillField(e, name, value)
      [] dom = "mem" -> MemCountEventFillField(e, name, value)
      [] OTHER -> SyscallCountEventFillField(e, name, value)

RECURSIVE FillElements(_, _, _)
\* A loop that ends at the first value that is no integer.
FillElements_StopsAtNonInt(dom, e, elements) ==
    IF elements = <<>> \/ elements[1][2] # "int" THEN e
    ELSE FillElements(dom, FillField(dom, e, elements[1][1], elements[1][3]),
                      Drop(elements, 1))

\* The loop over the members <<name, kind, value>> of the '@' object: a value
\* that is no integer is skipped.
FillElements(dom, e, elements) ==
    IF elements = <<>> THEN e
    ELSE FillElements(dom,
                      IF elements[1][2] # "int" THEN e
                      ELSE FillField(dom, e, elements[1][1], elements[1][3]),
                      Drop(elements, 1))

\* e.Fill(el): the receiver after the call, and the error returned.
Fill(dom, e, el) ==
    IF el.dkind # "obj" \/ el.dkey # "@"
    THEN [e |-> e, err |-> "failed to find '@' element"]
    ELSE IF el.dvk # "obj" THEN [e |-> e, err |-> "failed to get object from '@' element"]
    ELSE [e |-> FillElements(dom, e, el.dmap), err |-> ""]

\* printEvent(e, format, intervalCount): one call, as the record and the interval
\* count it is given.  How a format lays them out is left open (the table and
\* json formats write both, the csv format of vfs writes the counters only).
printEvent(b, kind, e) ==
    [b EXCEPT !.prints = Append(@, [kind |-> kind, e |-> e, n |-> b.intervalCount])]

\* `if live { printEvent(&event, format, intervalCount) }` at the end of the map
\* branch, e the snapshot of the interval.
Interval(b, e) == IF b.live THEN printEvent(b, "interval", e) ELSE b

\* The map branch after Fill that counts the interval and leaves the total alone.
Counted_NoAdd(dom, b, r) ==
    IF r.err # "" THEN Fail(b, "failed to fill event from map data")
    ELSE Interval([b EXCEPT !.event = r.e, !.intervalCount = @ + 1], r.e)

\* A map branch that counts the message before it looks at Fill's error.
Counted_CountsOnError(dom, b, r) ==
    IF r.err # ""
    THEN Fail([b EXCEPT !.intervalCount = @ + 1], "failed to fill event from map data")
    ELSE Interval([b EXCEPT !.event = r.e, !.intervalCount = @ + 1,
                            !.total = Add(dom, @, r.e)], r.e)

\* `if err := event.Fill(data); err != nil { return .. }; intervalCount++;
\* totalEvent.Add(&event); if live { printEvent(..) }`, r the outcome of Fill.
Counted(dom, b, r) ==
    IF r.err # "" THEN Fail(b, "failed to fill event from map data")
    ELSE Interval([b EXCEPT !.event = r.e, !.intervalCount = @ + 1,
                            !.total = Add(dom, @, r.e)], r.e)

\* A handler that fills the snapshot of the interval before in place of a new one.
countHandler_CarriesOver(dom, b, msgType, data) ==
    IF msgType = "map"
    THEN Counted(dom, b, Fill(dom, IF b.intervalCount = 0 THEN ZeroCount(dom) ELSE b.event,
                              data))
    ELSE b

\* The handler the net, proc, mem and syscall count commands pass to ParseStream.
countHandler(dom, b, msgType, data) ==
    IF msgType = "map" THEN Counted(dom, b, Fill(dom, ZeroCount(dom), data)) ELSE b

\* The count pipelines, named after their domain.
CountPipe(dom) == dom \o " count"
CountPipes == {CountPipe(dom) : dom \in CountDomains}
CountDomain(p) ==
    CASE p = "vfs count" -> "vfs"
      [] p = "net count" -> "net"
      [] p = "proc count" -> "proc"
      [] p = "mem count" -> "mem"
      [] p = "syscall count" -> "syscall"

\* A summary that is printed in live mode after a single interval as well.
Summary_AfterOneInterval(p, b) ==
    IF p \notin CountPipes THEN b
    ELSE IF ~b.live THEN printEvent(b, "total", b.total)
    ELSE IF b.intervalCount >= 1 THEN printEvent(b, "total", b.total)
    ELSE b

\* After the stream of a count command ended without an error:
\* `if !live { printEvent(&totalEvent, ..) } else if intervalCount > 1 { .. }`.
Summary(p, b) ==
    IF p \notin CountPipes THEN b
    ELSE IF ~b.live THEN printEvent(b, "total", b.total)
    ELSE IF b.intervalCount > 1 THEN printEvent(b, "total", b.total)
    ELSE b

(***************************************************************************)
(* Structured parser: the dispatcher of NDJSONParser and the handlers the  *)
(* domains pass to it.  FindElement fails on a data that is no object or   *)
(* has no member of that name; Int fails on a value that is no number;     *)
(* String / StringBytes fail on a value that is no string.                 *)
(***************************************************************************)
\* handleAttachedProbes without its `probes <= 0` check.
handleAttachedProbes_NoCheck(b, data) ==
    IF data.dkind # "obj" \/ data.dkey # "probes"
    THEN Fail(b, "failed to find 'probes' element")
    ELSE IF data.dvk # "int" THEN Fail(b, "failed to get 'probes' as int")
    ELSE b

handleAttachedProbes(b, data) ==
    IF data.dkind # "obj" \/ data.dkey # "probes"
    THEN Fail(b, "failed to find 'probes' element")
    ELSE IF data.dvk # "int" THEN Fail(b, "failed to get 'probes' as int")
    ELSE IF data.dint <= 0 THEN Fail(b, "probes not attached")
    ELSE b

handleTime(b, data) ==
    IF ~IsZero(b.start) THEN b
    ELSE IF data.dkind # "str" THEN Fail(b, "failed to get 'time' data as string")
    ELSE LET t == TimeParse(TrimSpace(data.dstr))
         IN  IF ~t.ok THEN Fail([b EXCEPT !.start = t.val], "failed to parse time")
             ELSE [b EXCEPT !.start = t.val]

handleLostEvents(b, data) ==
    IF data.dkind # "obj" \/ data.dkey # "events"
    THEN Fail(b, "failed to find 'events' element")
    ELSE IF data.dvk # "int" THEN Fail(b, "failed to get 'events' as int")
    ELSE b

\* The handler the raw command of a domain passes to ParseStream: a printf
\* payload is decoded into a zeroed record and appended, any other type is
\* reported and skipped.
\* A handler that returns an error for a type it does not know.
RawHandler_RejectsUnknown(dom, b, i, msgType, data) ==
    IF msgType = "printf" THEN
        IF data.dkind # "str"
        THEN Fail(Called(b, i, msgType), "failed to get 'printf' data as string")
        ELSE Decoded(Called(b, i, msgType), Unmarshal(dom, data.dstr, ZeroEvent(dom)),
                     "failed to unmarshal logfmt data: ")
    ELSE Fail(Called(b, i, msgType), "unknown message type")

\* The record pools of the net, proc and mem commands (netRawEventPool, ..): the
\* call's field pool is the record put back last, <<>> while the pool is empty.
\* Get hands out the pooled record, or a new one from New.
PooledDomains == {"net", "proc", "mem"}
Get(dom, pool) == IF pool = <<>> THEN ZeroEvent(dom) ELSE pool
Put(b, e) == [b EXCEPT !.pool = e]

\* A handler that decodes into the pooled record as it comes.
Reset_Keeps(dom, e) == e

\* *e = netRawEvent{}
Reset(dom, e) == ZeroEvent(dom)

\* The record the handler decodes into: a record of its own in the syscall
\* command (`var e syscallRawEvent`).
Record(dom, pool) == IF dom \in PooledDomains THEN Reset(dom, Get(dom, pool)) ELSE ZeroEvent(dom)

\* `err = logfmt.Unmarshal(buf, e); if err != nil { Put(e); return .. };
\* err = appendRow(e); Put(e); return err`, d the outcome of Unmarshal.
Pooled(dom, b, d, wrap) ==
    IF dom \notin PooledDomains THEN Decoded(b, d, wrap)
    ELSE IF d.panic THEN Panic(b)
    ELSE IF d.err # "" THEN Fail(Put(b, d.e), wrap \o d.err)
    ELSE Put(Returned(appendRow(b, d.e)), d.e)

RawHandler(dom, b, i, msgType, data) ==
    IF msgType = "printf" THEN
        IF data.dkind # "str"
        THEN Fail(Called(b, i, msgType), "failed to get 'printf' data as string")
        ELSE Pooled(dom, Called(b, i, msgType),
                    Unmarshal(dom, data.dstr, Record(dom, b.pool)),
                    "failed to unmarshal logfmt data: ")
    ELSE Called(b, i, msgType)

netJSONParseThenAppend(b, i, msgType, data) == RawHandler("net", b, i, msgType, data)
procJSONParseThenAppend(b, i, msgType, data) == RawHandler("proc", b, i, msgType, data)
memJSONParseThenAppend(b, i, msgType, data) == RawHandler("mem", b, i, msgType, data)
syscallJSONParseThenAppend(b, i, msgType, data) == RawHandler("syscall", b, i, msgType, data)

\* A caller-supplied MessageHandler that records the printf payloads it is given.
MessageHandler(b, i, msgType, data) ==
    IF msgType = "printf" THEN
        IF data.dkind # "str"
        THEN Fail(Called(b, i, msgType), "failed to get 'printf' data as string")
        ELSE Returned(appendRow(Called(b, i, msgType), data.dstr))
    ELSE Called(b, i, msgType)

\* A dispatcher that drops the message in place of calling the handler.
Handler_NotCalled(p, b, i, msgType, data) == b

Handler(p, b, i, msgType, data) ==
    CASE p = "net" -> netJSONParseThenAppend(b, i, msgType, data)
      [] p = "proc" -> procJSONParseThenAppend(b, i, msgType, data)
      [] p = "mem" -> memJSONParseThenAppend(b, i, msgType, data)
      [] p = "syscall" -> syscallJSONParseThenAppend(b, i, msgType, data)
      [] p \in CountPipes -> countHandler(CountDomain(p), b, msgType, data)
      [] OTHER -> MessageHandler(b, i, msgType, data)

\* A dispatcher that does not look for the 'data' member before it dispatches.
ParseStream_NoDataCheck(p, b, i, u) ==
    IF u.tkind = "absent" THEN Fail(b, "failed to find 'type' element")
    ELSE IF u.tkind # "str" THEN Fail(b, "failed to get 'type' as string")
    ELSE CASE u.type = "attached_probes" -> handleAttachedProbes(b, u)
           [] u.type = "time" -> handleTime(b, u)
           [] u.type = "lost_events" -> handleLostEvents(b, u)
           [] OTHER -> Handler(p, b, i, u.type, u)

\* The ForEach callback of NDJSONParser.ParseStream, for object i with value u.
ParseStream(p, b, i, u) ==
    IF u.tkind = "absent" THEN Fail(b, "failed to find 'type' element")
    ELSE IF u.tkind # "str" THEN Fail(b, "failed to get 'type' as string")
    ELSE IF u.dkind = "absent" THEN Fail(b, "failed to find 'data' element")
    ELSE CASE u.type = "attached_probes" -> handleAttachedProbes(b, u)
           [] u.type = "time" -> handleTime(b, u)
           [] u.type = "lost_events" -> handleLostEvents(b, u)
           [] OTHER -> Handler(p, b, i, u.type, u)

\* The ForEach callback of jsonParseThenAppend: the same dispatch written inline,
\* with the printf branch and the skip of every other type.
jsonParseThenAppend(b, i, u) ==
    IF u.tkind = "absent" THEN Fail(b, "failed to find 'type' element")
    ELSE IF u.tkind # "str" THEN Fail(b, "failed to get 'type' as string")
    ELSE IF u.dkind = "absent" THEN Fail(b, "failed to find 'data' element")
    ELSE CASE u.type = "attached_probes" ->
                IF u.dkind # "obj" \/ u.dkey # "probes"
                THEN Fail(b, "failed to find 'probes' element")
                ELSE IF u.dvk # "int" THEN Fail(b, "failed to get 'probes' as int")
                ELSE IF u.dint <= 0 THEN Fail(b, "probes not attached")
                ELSE b
           [] u.type = "time" ->
                IF ~IsZero(b.start) THEN b
                ELSE IF u.dkind # "str"
                     THEN Fail(b, "failed to get 'time' data as string")
                ELSE LET t == TimeParse(TrimSpace(u.dstr))
                     IN  IF ~t.ok
                         THEN Fail([b EXCEPT !.start = t.val], "failed to parse time")
                         ELSE [b EXCEPT !.start = t.val]
           [] u.type = "lost_events" ->
                IF u.dkind # "obj" \/ u.dkey # "events"
                THEN Fail(b, "failed to find 'events' element")
                ELSE IF u.dvk # "int" THEN Fail(b, "failed to get 'events' as int")
                ELSE b
           [] u.type = "printf" ->
                IF u.dkind # "str" THEN Fail(b, "failed to get 'printf' data as string")
                ELSE Decoded(Called(b, i, "printf"), Unmarshal("vfs", u.dstr, vfsEvent),
                             "failed to unmarshal logfmt data: ")
           [] OTHER -> b

\* The ForEach callback of the vfs count command: the dispatch written inline,
\* with the map branch and the skip of every other type.
vfsCount(b, u) ==
    IF u.tkind = "absent" THEN Fail(b, "failed to find 'type' element")
    ELSE IF u.tkind # "str" THEN Fail(b, "failed to get 'type' as string")
    ELSE IF u.dkind = "absent" THEN Fail(b, "failed to find 'data' element")
    ELSE CASE u.type = "attached_probes" ->
                IF u.dkind # "obj" \/ u.dkey # "probes"
                THEN Fail(b, "failed to find 'probes' element")
                ELSE IF u.dvk # "int" THEN Fail(b, "failed to get 'probes' as int")
                ELSE IF u.dint <= 0 THEN Fail(b, "probes not attached")
                ELSE b
           [] u.type = "time" ->
                IF ~IsZero(b.start) THEN b
                ELSE IF u.dkind # "str"
                     THEN Fail(b, "failed to get 'time' data as string")
                ELSE LET t == TimeParse(TrimSpace(u.dstr))
                     IN  IF ~t.ok
                         THEN Fail([b EXCEPT !.start = t.val], "failed to parse time")
                         ELSE [b EXCEPT !.start = t.val]
           [] u.type = "map" -> Counted("vfs", b, Fill("vfs", Event, u))
           [] OTHER -> b

\* got.Value.ForEach(callback) over the objects from..to of one decoded chunk:
\* it stops at the first error the callback returns.
RECURSIVE ForEach(_, _, _, _)
ForEach(p, b, i, to) ==
    IF i > to \/ b.stat # "run" THEN b
    ELSE ForEach(p,
                 IF p = "vfs" THEN jsonParseThenAppend([b EXCEPT !.pos = i], i, input[i])
                 ELSE IF p = "vfs count" THEN vfsCount([b EXCEPT !.pos = i], input[i])
                 ELSE ParseStream(p, [b EXCEPT !.pos = i], i, input[i]),
                 i + 1, to)

(***************************************************************************)
(* simdjson.ParseNDStream(r, res, reuse): a reader cuts the input into     *)
(* chunks of whole lines (whatever one read returns, up to the next        *)
(* newline), each chunk is decoded as a whole and forwarded in order on    *)
(* res; a chunk with a line that is not JSON is forwarded as an error.     *)
(* At end of input io.EOF is forwarded and res is closed.                  *)
(***************************************************************************)
ResCap == 10
ReuseCap == 10

Stream(err, from, to) == [err |-> err, from |-> from, to |-> to]

\* A forwarder that never waits for room in res.
CanForward_Always == TRUE

\* `res <- i`: the forwarder waits while res is full; after an error has been
\* forwarded it no longer blocks on a full res and the item is dropped.
CanForward == Len(res) < ResCap \/ ndEnd

Forward(item) == IF Len(res) < ResCap THEN Append(res, item) ELSE res

ParseNDStreamRead(k) ==
    /\ simple.stat # "run"
    /\ ~resClosed
    /\ ndRead + k <= Len(input)
    /\ CanForward
    /\ \A i \in (ndRead + 2)..(ndRead + k) : input[i].form # "fail"
    /\ LET bad == \E i \in (ndRead + 1)..(ndRead + k) : input[i].form = "raw"
           failed == input[ndRead + 1].form = "fail"
       IN  /\ res' = Forward(IF failed THEN Stream("read failed", 0, 0)
                             ELSE IF bad THEN Stream("parsing input", 0, 0)
                             ELSE Stream("", ndRead + 1, ndRead + k))
           /\ ndEnd' = (ndEnd \/ bad \/ failed)
    /\ ndRead' = ndRead + k
    /\ reuse' = IF reuse > 0 THEN reuse - 1 ELSE reuse
    /\ UNCHANGED <<pipe, input, failAt, simple, json, resClosed, jHold, main, alg, dec>>

ParseNDStreamEOF ==
    /\ simple.stat # "run"
    /\ ~resClosed
    /\ ndRead = Len(input)
    /\ CanForward
    /\ res' = Forward(Stream("EOF", 0, 0))
    /\ resClosed' = TRUE
    /\ ndEnd' = TRUE
    /\ UNCHANGED <<pipe, input, failAt, simple, json, ndRead, reuse, jHold, main, alg, dec>>

(***************************************************************************)
(* The two calls.                                                          *)
(***************************************************************************)
\* An entry point that returns nil whatever the scanner's error is.
ScannerErr_Dropped(b, err) == [b EXCEPT !.stat = "ok"]

\* `return scanner.Err()` at the end of ParseLines, err the scanner's error
\* ("" for nil).
ScannerErr(b, err) == IF err # "" THEN Fail(b, err) ELSE [b EXCEPT !.stat = "ok"]

\* An end of the loop that fails when no attached_probes message was read.
ScanEnded_RequiresProbes(p, b, err) ==
    IF \A i \in 1..b.pos : input[i].type # "attached_probes"
    THEN Fail(b, "probes not attached")
    ELSE [b EXCEPT !.stat = "ok"]

\* The end of the scanner loop, scanner.Scan() having returned false: ParseLines
\* returns scanner.Err(), simpleParseThenAppend returns nil.
ScanEnded(p, b, err) ==
    IF p = "lines" THEN ScannerErr(b, err) ELSE ScannerErr_Dropped(b, err)

\* One turn of the scanner loop of the Fast-Path call; where reading fails,
\* scanner.Scan() returns false and keeps the error.
SimpleScan ==
    /\ simple.stat = "run"
    /\ simple.pos < Len(input)
    /\ LET i == simple.pos + 1
           b == [simple EXCEPT !.pos = i]
       IN  simple' = IF input[i].form = "fail" THEN ScanEnded(pipe, b, "read failed")
                     ELSE IF pipe = "lines" THEN ParseLines(b, i, Render(input[i]))
                     ELSE simpleParseThenAppend(b, i, Render(input[i]))
    /\ UNCHANGED <<pipe, input, failAt, json, ndRead, ndEnd, res, resClosed, reuse, jHold, main, alg, dec>>

\* scanner.Scan() returns false at end of input: the call returns nil.
SimpleReturn ==
    /\ simple.stat = "run"
    /\ simple.pos = Len(input)
    /\ simple' = ScanEnded(pipe, simple, "")
    /\ UNCHANGED <<pipe, input, failAt, json, ndRead, ndEnd, res, resClosed, reuse, jHold, main, alg, dec>>

\* A message loop that goes on to the next item when an item carries an error.
JsonRecv_IgnoresError ==
    /\ simple.stat # "run"
    /\ json.stat = "run"
    /\ ~jHold
    /\ res # <<>>
    /\ res' = Tail(res)
    /\ LET got == Head(res)
       IN  IF got.err = "EOF"
           THEN json' = Summary(pipe, [json EXCEPT !.stat = "ok"]) /\ jHold' = FALSE
           ELSE IF got.err # "" THEN json' = json /\ jHold' = FALSE
           ELSE /\ json' = ForEach(pipe, json, got.from, got.to)
                /\ jHold' = (pipe # "vfs" /\ json'.stat = "run")
    /\ UNCHANGED <<pipe, input, failAt, simple, ndRead, ndEnd, resClosed, reuse, main, alg, dec>>

JsonRecv_EOFIsError ==
    /\ simple.stat # "run"
    /\ json.stat = "run"
    /\ ~jHold
    /\ res # <<>>
    /\ res' = Tail(res)
    /\ LET got == Head(res)
       IN  IF got.err # ""
           THEN json' = [json EXCEPT !.stat = "err", !.err = got.err] /\ jHold' = FALSE
           ELSE /\ json' = ForEach(pipe, json, got.from, got.to)
                /\ jHold' = (pipe # "vfs" /\ json'.stat = "run")
    /\ UNCHANGED <<pipe, input, failAt, simple, ndRead, ndEnd, resClosed, reuse, main, alg, dec>>

\* One turn of `for got := range res`: receive an item; io.EOF ends the loop, any
\* other error is returned; otherwise ForEach runs over the chunk's objects.
JsonRecv ==
    /\ simple.stat # "run"
    /\ json.stat = "run"
    /\ ~jHold
    /\ res # <<>>
    /\ res' = Tail(res)
    /\ LET got == Head(res)
       IN  IF got.err = "EOF"
           THEN json' = Summary(pipe, [json EXCEPT !.stat = "ok"]) /\ jHold' = FALSE
           ELSE IF got.err # ""
                THEN json' = [json EXCEPT !.stat = "err", !.err = got.err] /\ jHold' = FALSE
           ELSE /\ json' = ForEach(pipe, json, got.from, got.to)
                /\ jHold' = (pipe # "vfs" /\ json'.stat = "run")
    /\ UNCHANGED <<pipe, input, failAt, simple, ndRead, ndEnd, resClosed, reuse, main, alg, dec>>

\* main(): rootCmd.Run returns what the command's action returned, which is what
\* the stream-processing call returned.  A non-nil error is logged ("Unexpected
\* error") and main returns, so the process ends with status 0; an error that is
\* no cli.ExitCoder does not make Run exit.  A panic ends the process with the
\* runtime's status 2.
MainReturn ==
    /\ main.stat = "run"
    /\ json.stat \in {"ok", "err", "panic"}
    /\ main' = [stat |-> "exit",
                logged |-> (json.stat = "err"),
                code |-> IF json.stat = "panic" THEN 2 ELSE 0]
    /\ UNCHANGED <<pipe, input, failAt, simple, json, ndRead, ndEnd, res, resClosed, reuse,
                   jHold, alg, dec>>

\* `reuse <- got.Value` at the end of a turn of ParseStream's loop.
JsonReuse ==
    /\ jHold
    /\ reuse < ReuseCap
    /\ reuse' = reuse + 1
    /\ jHold' = FALSE
    /\ UNCHANGED <<pipe, input, failAt, simple, json, ndRead, ndEnd, res, resClosed, main, alg, dec>>


(***************************************************************************)
(* One call of a decoder on a zero record, as logfmt.Unmarshal makes it    *)
(* for a pair key=value.                                                   *)
(***************************************************************************)
Decode ==
    /\ dec.stat = "in"
    /\ dec' = [dec EXCEPT !.stat = "done",
                          !.out = HandleLogfmt(dec.dom, ZeroEvent(dec.dom), dec.key, dec.val)]
    /\ UNCHANGED <<pipe, input, failAt, simple, json, ndRead, ndEnd, res, resClosed, reuse,
                   jHold, main, alg>>

(***************************************************************************)
(* Add and Total applied to three snapshots a, b, c of one domain.         *)
(***************************************************************************)
\* ab := a.Add(b), ba := b.Add(a), bc := b.Add(c), each on a copy of the receiver.
AddPairs ==
    /\ alg.stat = "in"
    /\ alg' = [alg EXCEPT !.stat = "pairs",
                          !.ab = Add(alg.dom, alg.a, alg.b),
                          !.ba = Add(alg.dom, alg.b, alg.a),
                          !.bc = Add(alg.dom, alg.b, alg.c)]
    /\ UNCHANGED <<pipe, input, failAt, simple, json, ndRead, ndEnd, res, resClosed, reuse,
                   jHold, main, dec>>

\* ab_c := ab.Add(c), a_bc := a.Add(bc)
AddTriples ==
    /\ alg.stat = "pairs"
    /\ alg' = [alg EXCEPT !.stat = "triples",
                          !.ab_c = Add(alg.dom, alg.ab, alg.c),
                          !.a_bc = Add(alg.dom, alg.a, alg.bc)]
    /\ UNCHANGED <<pipe, input, failAt, simple, json, ndRead, ndEnd, res, resClosed, reuse,
                   jHold, main, dec>>

\* ta := a.Total(), tb := b.Total(), tab := ab.Total()
Totals ==
    /\ alg.stat = "triples"
    /\ \E oa \in TotalOrders(alg.dom, alg.a), ob \in TotalOrders(alg.dom, alg.b),
          oab \in TotalOrders(alg.dom, alg.ab) :
            alg' = [alg EXCEPT !.stat = "done",
                               !.ta = Total(alg.dom, alg.a, oa),
                               !.tb = Total(alg.dom, alg.b, ob),
                               !.tab = Total(alg.dom, alg.ab, oab)]
    /\ UNCHANGED <<pipe, input, failAt, simple, json, ndRead, ndEnd, res, resClosed, reuse,
                   jHold, main, dec>>

(***************************************************************************)
(* Inputs.  The units the streams are made of, in the bit-exact wire       *)
(* format (Render) unless they are a line that is no JSON at all.          *)
(***************************************************************************)
AP8 == IntMsg("attached_probes", "probes", 8)
AP0 == IntMsg("attached_probes", "probes", 0)
TimeA == StrMsg("time", <<"1", "2", ":", "3", "4", ":", "5", "6", NL>>)
TimeB == StrMsg("time", <<"0", "1", ":", "0", "2", ":", "0", "3", NL>>)
TimeNoNL == StrMsg("time", <<"1", "2", ":", "3", "4", ":", "5", "6">>)
TimeBad == StrMsg("time", <<"b", "a", "d", NL>>)
TimeJunk == StrMsg("time", <<"1", "2", ":", "3", "4", ":", "5", "6", "x", "y">>)
Lost5 == IntMsg("lost_events", "events", 5)
LostText == TextMsg("lost_events", "events", <<"x">>)
PfTid == StrMsg("printf", <<"t", "i", "d", "=", "7">>)
PfEsc == StrMsg("printf", <<"f", "n", "=", "a", BS, "b">>)
PfComm == StrMsg("printf", <<"c", "o", "m", "m", "=", "'", "s", "h", "'", SP, "t", "s", "=", "3">>)
PfUnknownKey == StrMsg("printf", <<"f", "o", "o", "=", "1">>)
PfUnknownKeyPath == StrMsg("printf", <<"f", "o", "o", "=", "1", SP, "p", "a", "t", "h", "=">>)
UnknownType == StrMsg("weird", <<"x">>)
MapA == MapMsg("map", "@", << <<"a", "int", 1>> >>)
Garbage == RawLine(<<"{", "x">>)
NoType == Unit("json", "absent", "", "str", <<"x">>, "", "int", 0, <<>>, <<>>, <<>>)
NumType == Unit("json", "num", "", "str", <<"x">>, "", "int", 0, <<>>, <<>>, <<>>)
NoData == Unit("json", "str", "weird", "absent", <<>>, "", "int", 0, <<>>, <<>>, <<>>)

\* Snapshots: names of several domains and a name of none, counters that make
\* the total wrap around, two names of one counter, a value that is no integer,
\* a data without the '@' member.
MapVfs == MapMsg("map", "@", << <<"vfs_create", "int", 10>>, <<"vfs_unknown", "int", 999>> >>)
MapMax ==
    MapMsg("map", "@",
           << <<"vfs_read", "int", MaxInt64>>, <<"tcp_connect", "int", MaxInt64>>,
              <<"exec", "int", MaxInt64>>, <<"mmap", "int", MaxInt64>> >>)
MapMixed ==
    MapMsg("map", "@",
           << <<"vfs_create", "str", 0>>, <<"vfs_write", "int", 2>>, <<"udp_send", "int", 7>>,
              <<"exec", "int", 3>>, <<"sched_process_exec", "int", 5>>,
              <<"do_mmap", "int", 2>>, <<"mmap", "int", 1>> >>)
MapNoAt == IntMsg("map", "x", 1)
MapAtInt == IntMsg("map", "@", 1)

\* Streams of raw records, for every pipeline.
RawUnits == {AP8, PfTid, PfEsc, PfUnknownKey, PfUnknownKeyPath}
\* Streams that exercise the dispatch: known and unknown types, lines that are no JSON.
DispatchUnits == {AP8, PfTid, UnknownType, MapA, Garbage, NoType, NumType, NoData}
\* Streams of snapshots, for the count pipelines.
CountUnits == {MapVfs, MapMax, MapMixed, MapNoAt, UnknownType}

\* Streams of a count command run with and without --live: snapshots, a message
\* that is skipped, a map message Fill rejects, and a line that is not JSON.
PrintUnits == {MapVfs, MapMixed, MapNoAt, UnknownType, Garbage}

\* Snapshot streams with map messages Fill rejects.
FillUnits == {MapVfs, MapMax, MapNoAt, MapAtInt}
\* Streams of envelope messages.
EnvUnits == {AP8, AP0, TimeA, TimeB, TimeNoNL, TimeBad, TimeJunk, Lost5, LostText, PfTid}

RECURSIVE Streams(_, _)
\* Lines cut short after a known prefix: shorter than prefix plus suffix.
TruncPrintf == RawLine(printfKeyword \o <<"x">>)
TruncTime == RawLine(startTimeKeyword \o <<"1", "2", ":">>)
TruncLost == RawLine(lostEventsKeyword)
TruncUnits == {AP8, PfTid, UnknownType, TruncPrintf, TruncTime, TruncLost}

\* Streams that are read to their end, and streams that end where reading fails.
ReadUnits == {AP8, PfTid, UnknownType}
ReadStreams ==
    Streams(ReadUnits, MaxLines) \cup {t \o <<ReadFail>> : t \in Streams(ReadUnits, MaxLines)}

\* Messages of every type for the dispatch loop of the vfs count command.
InlineUnits == {AP8, AP0, TimeA, TimeBad, Lost5, LostText, MapVfs, MapNoAt, UnknownType}

PoolUnits == {PfTid, PfEsc, PfComm, PfUnknownKey, UnknownType}

Streams(units, n) ==
    IF n = 0 THEN {<<>>}
    ELSE Streams(units, n - 1)
         \cup {Append(t, u) : t \in {x \in Streams(units, n - 1) : Len(x) = n - 1},
                              u \in units}

MaxFailAt == 2

Pipes == {"lines", "vfs", "net", "proc", "mem", "syscall"}
\* The pipelines that have a Fast-Path entry point.
HasSimple(p) == p \in {"lines", "vfs"}

StartLive(pipes, inputs, fails, lives) ==
    /\ pipe \in pipes
    /\ input \in inputs
    /\ failAt \in fails
    /\ simple = NewCall(IF HasSimple(pipe) THEN "run" ELSE "off")
    /\ \E live \in lives :
          json = [NewCall("run") EXCEPT
                     !.total = IF pipe \in CountPipes THEN ZeroCount(CountDomain(pipe))
                               ELSE <<>>,
                     !.live = live]
    /\ ndRead = 0
    /\ ndEnd = FALSE
    /\ res = <<>>
    /\ resClosed = FALSE
    /\ reuse = 0
    /\ jHold = FALSE
    /\ main = [stat |-> "run", logged |-> FALSE, code |-> 0]

\* A run without the --live flag.
StartWith(pipes, inputs, fails) == StartLive(pipes, inputs, fails, {FALSE})

Start(pipes, units, fails) == StartWith(pipes, Streams(units, MaxLines), fails)

\* The attribute values of vfs records, and the payload the tracer prints for them:
\* the record of the tests (with shorter numbers), one with a negative return value, one with a
\* backslash in its path.
RecTest ==
    [Timestamp |-> 12, Probe |-> <<"v", "f", "s", "_", "r", "e", "a", "d">>,
     Tid |-> 34, ReturnValue |-> 100, Path |-> <<"t", ".", "t", "x", "t">>,
     Inode |-> 5, Offset |-> 0, Length |-> 100]
RecNeg ==
    [Timestamp |-> 1, Probe |-> <<"o", "p", "e", "n">>,
     Tid |-> 7, ReturnValue |-> 0 - 2, Path |-> <<"/", "x">>,
     Inode |-> 0, Offset |-> 4096, Length |-> 0]
RecEsc ==
    [Timestamp |-> 2, Probe |-> <<"r", "e", "a", "d">>,
     Tid |-> 7, ReturnValue |-> 1, Path |-> <<"a", BS, "b">>,
     Inode |-> 3, Offset |-> 0, Length |-> 1]

Payload(r) ==
    <<"t", "s", "=">> \o IntChars(r.Timestamp)
    \o <<SP, "f", "n", "=">> \o r.Probe
    \o <<SP, "t", "i", "d", "=">> \o IntChars(r.Tid)
    \o <<SP, "r", "c", "=">> \o IntChars(r.ReturnValue)
    \o <<SP, "p", "a", "t", "h", "=", SQ>> \o r.Path \o <<SQ>>
    \o <<SP, "i", "n", "o", "d", "e", "=">> \o IntChars(r.Inode)
    \o <<SP, "o", "f", "f", "s", "e", "t", "=">> \o IntChars(r.Offset)
    \o <<SP, "l", "e", "n", "=">> \o IntChars(r.Length)

MaxPayloads == 2
ScenarioRecs == {RecTest, RecNeg, RecEsc}

\* attached_probes, time, the printf messages of these records, lost_events.
Scenario(recs) ==
    <<AP8, TimeA>> \o [i \in 1..Len(recs) |-> StrMsg("printf", Payload(recs[i]))] \o <<Lost5>>

ScenarioStreams == {Scenario(recs) : recs \in Streams(ScenarioRecs, MaxPayloads)}

\* No call of a decoder.
\* Streams long enough to fill the queues: QueueLines well-formed lines, or a
\* line that is not JSON followed by them.
QueueLines == 11
Filler(n) == [i \in 1..n |-> AP8]
QueueStreams == {Filler(QueueLines), <<Garbage>> \o Filler(QueueLines)}

DecOff == [stat |-> "off", dom |-> "", key |-> "", val |-> <<>>, out |-> <<>>]

\* The keys of the five decoders and a key of none.
DecKeys ==
    {"ts", "fn", "tid", "rc", "path", "inode", "offset", "len", "comm", "saddr", "sport",
     "daddr", "dport", "bytes", "proto", "pid", "ppid", "cmdline", "exit_code", "addr",
     "size", "type", "nr", "name", "arg0", "arg1", "arg2", "arg3", "arg4", "arg5", "ret",
     "foo"}

\* Raw values: numbers with and without a sign, in hexadecimal, out of the 16-bit
\* range, text that is no number, the empty value, and text with quote characters
\* around it, inside it, on one side only, or with none.
DecValues ==
    {<<"5">>, <<"-", "5">>, <<"+", "5">>, <<"7", "0", "0", "0", "0">>, <<"0", "x", "1", "f">>,
     <<"b", "a", "d">>, <<"1", "2", "a">>, <<>>, <<"-">>,
     <<"6", "5", "5", "3", "5">>, <<"6", "5", "5", "3", "6">>,
     <<SQ, "x", SQ>>, <<SQ, SQ, "x", SQ>>, <<SQ, "a", SQ, "b", SQ>>, <<"b", "a", "s", "h">>,
     <<SQ>>, <<SQ, SQ>>, <<DQ, "x", SQ>>}

\* No snapshots to add up.
AlgOff ==
    [stat |-> "off", dom |-> "", a |-> <<>>, b |-> <<>>, c |-> <<>>, ab |-> <<>>,
     ba |-> <<>>, bc |-> <<>>, ab_c |-> <<>>, a_bc |-> <<>>, ta |-> 0, tb |-> 0, tab |-> 0]

\* The counter values the snapshots are made of, and the names of a syscall map.
CounterValues == {0, 1, MaxInt64, MinInt64}
SyscallNames == {"read", "write"}

\* Snapshots of a domain: for a struct the zero value, one counter set, or every
\* counter set to the same value; for the syscall map every map over SyscallNames.
Snapshots(dom) ==
    IF dom = "syscall"
    THEN UNION {[ks -> CounterValues] : ks \in SUBSET SyscallNames}
    ELSE {ZeroCount(dom)}
         \cup {[ZeroCount(dom) EXCEPT ![f] = v] :
                   f \in DOMAIN ZeroCount(dom), v \in CounterValues \ {0}}
         \cup {[f \in DOMAIN ZeroCount(dom) |-> v] : v \in CounterValues \ {0}}

Init == Start(Pipes, RawUnits, 0..MaxFailAt) /\ alg = AlgOff /\ dec = DecOff
InitDispatch == Start({"lines", "vfs", "net"}, DispatchUnits, {0}) /\ alg = AlgOff /\ dec = DecOff
InitEnv == Start({"lines", "vfs"}, EnvUnits, {0}) /\ alg = AlgOff /\ dec = DecOff
InitCount == Start(CountPipes, CountUnits, {0}) /\ alg = AlgOff /\ dec = DecOff
InitScenario == StartWith({"lines", "vfs"}, ScenarioStreams, {0}) /\ alg = AlgOff /\ dec = DecOff
InitQueue == StartWith({"net", "vfs count"}, QueueStreams, {0}) /\ alg = AlgOff /\ dec = DecOff
InitTrunc == Start({"lines", "vfs"}, TruncUnits, {0}) /\ alg = AlgOff /\ dec = DecOff
InitFill == Start(CountPipes, FillUnits, {0}) /\ alg = AlgOff /\ dec = DecOff
InitRead == StartWith({"lines", "vfs"}, ReadStreams, {0}) /\ alg = AlgOff /\ dec = DecOff
InitInline == Start({"vfs count"}, InlineUnits, {0}) /\ alg = AlgOff /\ dec = DecOff
InitPrint ==
    /\ StartLive(CountPipes, Streams(PrintUnits, MaxLines), {0}, BOOLEAN)
    /\ alg = AlgOff /\ dec = DecOff
InitPool ==
    Start({"net", "proc", "mem"}, PoolUnits, {0}) /\ alg = AlgOff /\ dec = DecOff
InitDecode ==
    /\ Start({"lines"}, {}, {0})
    /\ alg = AlgOff
    /\ \E dom \in CountDomains, k \in DecKeys, v \in DecValues :
          dec = [DecOff EXCEPT !.stat = "in", !.dom = dom, !.key = k, !.val = v]
InitAlg ==
    /\ Start({"lines"}, {}, {0})
    /\ dec = DecOff
    /\ \E dom \in CountDomains :
          \E a \in Snapshots(dom), b \in Snapshots(dom), c \in Snapshots(dom) :
             alg = [AlgOff EXCEPT !.stat = "in", !.dom = dom, !.a = a, !.b = b, !.c = c]

Next ==
    \/ SimpleScan
    \/ SimpleReturn
    \/ \E k \in 1..MaxLines : ParseNDStreamRead(k)
    \/ ParseNDStreamEOF
    \/ JsonRecv
    \/ JsonReuse
    \/ MainReturn

\* A count command: the Structured call alone.
NextCount ==
    \/ \E k \in 1..MaxLines : ParseNDStreamRead(k)
    \/ ParseNDStreamEOF
    \/ JsonRecv
    \/ JsonReuse
    \/ MainReturn

NextDecode == Decode

NextAlg == AddPairs \/ AddTriples \/ Totals

Spec == Init /\ [][Next]_vars
SpecCount == InitCount /\ [][NextCount]_vars
SpecScenario == InitScenario /\ [][Next]_vars
SpecQueue == InitQueue /\ [][NextCount]_vars
SpecPrint == InitPrint /\ [][NextCount]_vars

\* The Go scheduler runs every goroutine that can take a step: the reader and
\* forwarder of ParseNDStream, the message loop, and main.
FairCount ==
    /\ WF_vars(\E k \in 1..MaxLines : ParseNDStreamRead(k))
    /\ WF_vars(ParseNDStreamEOF)
    /\ WF_vars(JsonRecv)
    /\ WF_vars(JsonReuse)
    /\ WF_vars(MainReturn)
SpecQueueLive == InitQueue /\ [][NextCount]_vars /\ FairCount
SpecTrunc == InitTrunc /\ [][Next]_vars
SpecFill == InitFill /\ [][NextCount]_vars
SpecRead == InitRead /\ [][Next]_vars
SpecInline == InitInline /\ [][NextCount]_vars
SpecPool == InitPool /\ [][NextCount]_vars
SpecDecode == InitDecode /\ [][NextDecode]_vars
SpecAlg == InitAlg /\ [][NextAlg]_vars
SpecDispatch == InitDispatch /\ [][Next]_vars
SpecEnv == InitEnv /\ [][Next]_vars

TypeOK ==
    /\ pipe \in Pipes \cup CountPipes
    /\ Len(input) <= MaxLines
    /\ simple.stat \in {"run", "ok", "err", "panic", "off"}
    /\ json.stat \in {"run", "ok", "err", "panic"}
    /\ ndRead \in 0..Len(input)
    /\ Len(res) <= ResCap
    /\ reuse \in 0..ReuseCap


(***************************************************************************)
(* Vocabulary of the properties.                                           *)
(***************************************************************************)
Done(b) == b.stat \in {"ok", "err", "panic"}
\* The call returned an error, or crashed, while it processed unit i.
ErrAt(b, i) == b.stat \in {"err", "panic"} /\ b.at = i
Envelope == {"attached_probes", "time", "lost_events"}
IsMsg(u, type) == u.form = "json" /\ u.tkind = "str" /\ u.type = type

\* HH:MM:SS: what time.Parse(time.TimeOnly, ..) accepts.
Clock(t) == TimeParse(t).ok

\* A unit in the documented wire format.
Conforms(u) ==
    /\ u.form = "json"
    /\ u.tkind = "str"
    /\ CASE u.type = "attached_probes" ->
                u.dkind = "obj" /\ u.dkey = "probes" /\ u.dvk = "int" /\ u.dint >= 0
         [] u.type = "time" ->
                /\ u.dkind = "str"
                /\ \/ Clock(u.dstr)
                   \/ u.dstr # <<>> /\ Last(u.dstr) = NL /\ Clock(Front(u.dstr))
         [] u.type = "lost_events" ->
                u.dkind = "obj" /\ u.dkey = "events" /\ u.dvk = "int" /\ u.dint >= 0
         [] u.type = "printf" -> u.dkind = "str"
         [] u.type = "map" -> u.dkind = "obj" /\ u.dkey = "@" /\ u.dvk = "obj"
         [] OTHER -> FALSE

(***************************************************************************)
(* C1.  For an input both backends accept, the printf payloads dispatched  *)
(* to the handler are the same sequence in the Fast-Path call and in the   *)
(* Structured call: same number, same order, same text (same record where  *)
(* the payload is decoded before it is handed over).                       *)
(***************************************************************************)
C1_SamePayloads ==
    (simple.stat = "ok" /\ json.stat = "ok") => simple.rows = json.rows

(***************************************************************************)
(* C2.  On an input in the documented wire format, the Fast-Path call      *)
(* returns an error at an attached_probes, time or lost_events message if  *)
(* and only if the Structured call returns an error at that message.       *)
(***************************************************************************)
C2_SameClassification ==
    (/\ \A i \in 1..Len(input) : Conforms(input[i])
     /\ Done(simple) /\ Done(json))
    => \A i \in 1..Len(input) :
           input[i].type \in Envelope => (ErrAt(simple, i) <=> ErrAt(json, i))

(***************************************************************************)
(* C3.  In each backend an attached_probes message with count 0 ends the   *)
(* call with the error "probes not attached" and nothing after it is       *)
(* processed; an attached_probes message with a positive count never       *)
(* produces an error.                                                      *)
(***************************************************************************)
ProbesChecked(b) ==
    \A i \in 1..b.pos :
        (IsMsg(input[i], "attached_probes") /\ Conforms(input[i])) =>
            IF input[i].dint = 0
            THEN b.stat = "err" /\ b.err = "probes not attached" /\ b.at = i /\ b.pos = i
            ELSE ~ErrAt(b, i)

C3_ProbesNotAttached ==
    /\ simple.stat # "off" => ProbesChecked(simple)
    /\ ProbesChecked(json)

C3_Witness ==
    /\ Len(input) = 3 /\ input[1] = AP8 /\ input[2] = AP0
    /\ simple.stat = "err" /\ simple.err = "probes not attached" /\ simple.pos = 2
    /\ json.stat = "err" /\ json.err = "probes not attached" /\ json.pos = 2

(***************************************************************************)
(* C4.  In each backend, after a valid first time message every later time *)
(* message is ignored: it raises no error whatever its value, and the      *)
(* start time the backend retains is still the first one.                  *)
(***************************************************************************)
FirstValidTime(f) ==
    /\ IsMsg(input[f], "time") /\ input[f].dkind = "str"
    /\ input[f].dstr # <<>> /\ Last(input[f].dstr) = NL /\ Clock(Front(input[f].dstr))
    /\ \A k \in 1..(f - 1) : ~IsMsg(input[k], "time")

StartTimeOnce(b, retains) ==
    \A f \in 1..b.pos, i \in 1..b.pos :
        (f < i /\ FirstValidTime(f) /\ IsMsg(input[i], "time")) =>
            /\ ~ErrAt(b, i)
            /\ retains => b.start = TimeParse(Front(input[f].dstr)).val

C4_StartTimeOnce ==
    /\ simple.stat # "off" => StartTimeOnce(simple, pipe = "lines")
    /\ StartTimeOnce(json, TRUE)

(***************************************************************************)
(* C5.  Once an AppendRow call has returned an error the call has returned *)
(* an error, no further AppendRow call is made, and the rows stored are    *)
(* those of the calls before the failing one.                              *)
(***************************************************************************)
AppendFailureAborts(b) ==
    (failAt > 0 /\ b.appends >= failAt) =>
        /\ b.stat = "err"
        /\ b.appends = failAt
        /\ Len(b.rows) = failAt - 1

C5_AppendRowFailure ==
    /\ AppendFailureAborts(simple)
    /\ AppendFailureAborts(json)

C5_Witness ==
    /\ failAt = 2
    /\ Len(input) = 3 /\ \A i \in 1..3 : IsMsg(input[i], "printf")
    /\ simple.stat = "err" /\ simple.appends = 2 /\ Len(simple.rows) = 1
    /\ json.stat = "err" /\ json.appends = 2 /\ Len(json.rows) = 1


(***************************************************************************)
(* C6.  In every domain a printf payload with a key outside the domain's   *)
(* vocabulary makes the decoder return an error: the call returns an error *)
(* at that record, the record is not passed to AppendRow and no later      *)
(* record is processed.                                                    *)
(***************************************************************************)
Vocabulary(dom) ==
    CASE dom = "vfs" -> {"ts", "fn", "tid", "rc", "path", "inode", "offset", "len"}
      [] dom = "net" -> {"ts", "fn", "tid", "comm", "saddr", "sport", "daddr", "dport",
                         "bytes", "proto"}
      [] dom = "proc" -> {"ts", "fn", "pid", "ppid", "tid", "comm", "cmdline", "exit_code"}
      [] dom = "mem" -> {"ts", "fn", "pid", "tid", "comm", "addr", "size", "type"}
      [] OTHER -> {"ts", "pid", "tid", "comm", "nr", "name", "arg0", "arg1", "arg2", "arg3",
                   "arg4", "arg5", "ret"}

HasUnknownKey(dom, data) ==
    LET pairs == LogfmtPairs(data)
    IN  \E n \in 1..Len(pairs) : Join(pairs[n][1]) \notin Vocabulary(dom)

PrintfBefore(i) == Cardinality({k \in 1..(i - 1) : IsMsg(input[k], "printf")})

UnknownKeyAborts(b) ==
    \A i \in 1..b.pos :
        (/\ IsMsg(input[i], "printf") /\ input[i].dkind = "str"
         /\ HasUnknownKey(pipe, input[i].dstr))
        => /\ b.stat = "err" /\ b.at = i /\ b.pos = i
           /\ b.appends <= PrintfBefore(i)

C6_UnknownKey ==
    pipe # "lines" =>
        /\ simple.stat # "off" => UnknownKeyAborts(simple)
        /\ UnknownKeyAborts(json)

(***************************************************************************)
(* C7.  In the Structured call a line that is no JSON, after a valid       *)
(* attached_probes message, ends the call with a decode error (unless an   *)
(* earlier unit already ended it), and the handler is given no record of   *)
(* that line or of any line after it.                                      *)
(***************************************************************************)
AfterProbes(g) ==
    \E a \in 1..(g - 1) :
        IsMsg(input[a], "attached_probes") /\ Conforms(input[a]) /\ input[a].dint > 0

C7_MalformedLine ==
    \A g \in 1..Len(input) :
        (input[g].form = "raw" /\ AfterProbes(g)) =>
            /\ json.pos < g
            /\ \A n \in 1..Len(json.calls) : json.calls[n].i < g
            /\ Done(json) =>
                   \/ json.stat = "err" /\ json.at = 0 /\ json.err = "parsing input"
                   \/ \E k \in 1..(g - 1) : ErrAt(json, k)

C7_Witness ==
    /\ input = <<AP8, Garbage, PfTid>>
    /\ json.stat = "err" /\ json.err = "parsing input"
    /\ json.pos = 1 /\ json.calls = <<>> /\ json.rows = <<>>
    /\ ndRead = 3

(***************************************************************************)
(* C8.  A message whose top-level type is not recognized never raises an   *)
(* error and never causes the handler to be called with that type;         *)
(* processing continues with the next message.                             *)
(***************************************************************************)
Recognized == Envelope \cup {"printf", "map"}
Unrecognized(u) ==
    u.form = "json" /\ u.tkind = "str" /\ u.dkind # "absent" /\ u.type \notin Recognized

NoErrorOnUnrecognized(b) ==
    \A i \in 1..b.pos : Unrecognized(input[i]) => ~ErrAt(b, i)

NotCalledWithUnrecognized(b) ==
    \A n \in 1..Len(b.calls) : b.calls[n].type \in Recognized

C8_UnrecognizedNeverDispatched ==
    /\ NoErrorOnUnrecognized(simple) /\ NotCalledWithUnrecognized(simple)
    /\ NoErrorOnUnrecognized(json) /\ NotCalledWithUnrecognized(json)

\* C8, amended.  A message whose top-level type is not recognized never raises
\* an error and never reaches the decoder or AppendRow, and processing continues
\* with the next message.  The Fast-Path parsers and the inline loop of
\* jsonParseThenAppend make no handler call for it; NDJSONParser.ParseStream
\* does call the caller-supplied handler with that type, which skips it.
C8_UnrecognizedSkipped ==
    /\ NoErrorOnUnrecognized(simple) /\ NotCalledWithUnrecognized(simple)
    /\ NoErrorOnUnrecognized(json)
    /\ pipe = "vfs" => NotCalledWithUnrecognized(json)
    /\ pipe # "vfs" =>
           \A i \in 1..json.pos :
               Unrecognized(input[i]) =>
                   \E n \in 1..Len(json.calls) :
                       json.calls[n] = [i |-> i, type |-> input[i].type]
    /\ simple.appends <= PrintfBefore(simple.pos + 1)
    /\ json.appends <= PrintfBefore(json.pos + 1)
    /\ json.stat = "ok" => json.pos = Len(input)
    /\ simple.stat = "ok" => simple.pos = Len(input)

C8_Witness ==
    /\ pipe = "net"
    /\ input = <<UnknownType, PfTid>>
    /\ json.stat = "ok"
    /\ json.calls = <<[i |-> 1, type |-> "weird"], [i |-> 2, type |-> "printf"]>>
    /\ Len(json.rows) = 1

(***************************************************************************)
(* C9.  NDJSONParser.ParseStream hands every message whose type is not     *)
(* attached_probes, time or lost_events to the caller-supplied handler,    *)
(* whatever came before it: a printf or map message ahead of any           *)
(* attached_probes message is processed normally.                          *)
(***************************************************************************)
C9_AlwaysDelegated ==
    pipe # "vfs" =>
        /\ \A i \in 1..json.pos :
               (/\ input[i].form = "json" /\ input[i].tkind = "str"
                /\ input[i].dkind # "absent" /\ input[i].type \notin Envelope)
               => \E n \in 1..Len(json.calls) :
                      json.calls[n] = [i |-> i, type |-> input[i].type]
        /\ \A n \in 1..Len(json.calls) : json.calls[n].type \notin Envelope

C9_Witness ==
    /\ pipe = "lines"
    /\ failAt = 0
    /\ input = <<PfTid, MapA, AP8>>
    /\ json.stat = "ok"
    /\ json.calls = <<[i |-> 1, type |-> "printf"], [i |-> 2, type |-> "map"]>>
    /\ json.rows = <<PfTid.dstr>>

(***************************************************************************)
(* C10.  A lost_events message never makes the call fail, in either        *)
(* backend, whatever its data is.                                          *)
(***************************************************************************)
LostEventsAccepted(b) ==
    \A i \in 1..b.pos : IsMsg(input[i], "lost_events") => ~ErrAt(b, i)

C10_LostEventsNeverFail ==
    /\ LostEventsAccepted(simple)
    /\ LostEventsAccepted(json)


(***************************************************************************)
(* C11.  When the command's stream processing returns an error, the        *)
(* program reports the error and ends with a non-zero exit status.         *)
(***************************************************************************)
C11_FatalExitsNonZero ==
    (main.stat = "exit" /\ json.stat = "err") => (main.logged /\ main.code # 0)


(***************************************************************************)
(* C12.  AppendRow is called exactly once for each printf message whose    *)
(* payload decodes successfully, in the order of the input, and for no     *)
(* other message: the calls made are as many as the decodable printf       *)
(* messages processed, and the rows stored are their records, in order.    *)
(***************************************************************************)
\* The printf payload backend k ("simple" | "json") sees in unit u, <<TRUE, text>>,
\* or <<FALSE, <<>>>> when it sees no printf message in it.
PayloadIn(line) ==
    IF HasPrefix(line, printfKeyword) /\ InRange(line, printfKeyword, 2)
    THEN <<TRUE, Slice(line, printfKeyword, 2)>>
    ELSE <<FALSE, <<>>>>

PayloadSeen(k, u) ==
    IF k = "simple" THEN PayloadIn(Render(u))
    ELSE IF IsMsg(u, "printf") /\ u.dkind = "str" THEN <<TRUE, u.dstr>>
         ELSE <<FALSE, <<>>>>

RowOf(seen, d) == IF seen /\ ~d.panic /\ d.err = "" THEN <<d.e>> ELSE <<>>

RowOfSeen(seen) == RowOf(seen[1], Unmarshal(pipe, seen[2], ZeroEvent(pipe)))

RECURSIVE ExpectedRows(_, _)
ExpectedRows(k, upto) ==
    IF upto = 0 THEN <<>>
    ELSE ExpectedRows(k, upto - 1) \o RowOfSeen(PayloadSeen(k, input[upto]))

OncePerRecord(b, expected) ==
    /\ b.appends = Len(expected)
    /\ b.rows = IF failAt > 0 /\ b.appends >= failAt THEN Front(expected) ELSE expected

MissingField(u) == u.form = "json" /\ (u.tkind # "str" \/ u.dkind = "absent")

C13_MissingField ==
    \A i \in 1..json.pos :
        MissingField(input[i]) =>
            /\ json.stat = "err" /\ json.at = i
            /\ json.err = (IF input[i].tkind = "absent" THEN "failed to find 'type' element"
                           ELSE IF input[i].tkind # "str"
                                THEN "failed to get 'type' as string"
                           ELSE "failed to find 'data' element")
            /\ \A n \in 1..Len(json.calls) : json.calls[n].i # i

C13_Witness ==
    /\ pipe = "net"
    /\ input = <<AP8, NoData, PfTid>>
    /\ json.stat = "err" /\ json.err = "failed to find 'data' element"
    /\ json.pos = 2 /\ json.calls = <<>>


(***************************************************************************)
(* C14.  A first time message whose value cannot be parsed as              *)
(* hour:minute:second makes the call return an error at that message, in   *)
(* each backend, and no start time is retained.                            *)
(***************************************************************************)
\* The value of a time message: HH:MM:SS, possibly with a trailing newline.
TimeValue(u) ==
    IF u.dkind = "str" /\ Clock(u.dstr) THEN TimeParse(u.dstr)
    ELSE IF u.dkind = "str" /\ u.dstr # <<>> /\ Last(u.dstr) = NL
         THEN TimeParse(Front(u.dstr))
    ELSE [ok |-> FALSE, val |-> ZeroTime]

FirstTime(i) ==
    IsMsg(input[i], "time") /\ \A k \in 1..(i - 1) : ~IsMsg(input[k], "time")

UnparseableTimeAborts(b) ==
    \A i \in 1..b.pos :
        (FirstTime(i) /\ ~TimeValue(input[i]).ok) =>
            b.stat = "err" /\ b.at = i /\ IsZero(b.start)

C14_UnparseableTimeAborts ==
    /\ simple.stat # "off" => UnparseableTimeAborts(simple)
    /\ UnparseableTimeAborts(json)

(***************************************************************************)
(* C15.  A time message whose data is a valid HH:MM:SS string, with or     *)
(* without a trailing escaped newline, is accepted by each backend, and    *)
(* the start time the backend retains is that value.                       *)
(***************************************************************************)
OnlyTime(b, i) ==
    IsMsg(input[i], "time") /\ \A k \in (1..b.pos) \ {i} : ~IsMsg(input[k], "time")

ValidTimeAccepted(b, retains) ==
    \A i \in 1..b.pos :
        (OnlyTime(b, i) /\ TimeValue(input[i]).ok) =>
            /\ ~ErrAt(b, i)
            /\ retains => b.start = TimeValue(input[i]).val

C15_ValidTimeAccepted ==
    /\ simple.stat # "off" => ValidTimeAccepted(simple, pipe = "lines")
    /\ ValidTimeAccepted(json, TRUE)


(***************************************************************************)
(* C16.  End of input is not an error.  A call that has returned either    *)
(* returned nil after it processed every message of the input, or returned *)
(* the error of a failing stage: the handling of one message (dispatch or  *)
(* handler), or the decoding of a chunk that holds a malformed line.  The  *)
(* end-of-input marker is never returned as an error.                      *)
(***************************************************************************)
StageFailed(b) ==
    \/ b.at \in 1..Len(input)
    \/ b.err = "parsing input" /\ \E i \in 1..Len(input) : input[i].form = "raw"

EndOfInputIsNil(b) ==
    Done(b) =>
        \/ b.stat = "ok" /\ b.pos = Len(input)
        \/ b.stat \in {"err", "panic"} /\ b.err # "EOF" /\ StageFailed(b)

C16_EndOfInputIsNil ==
    /\ simple.stat # "off" => EndOfInputIsNil(simple)
    /\ EndOfInputIsNil(json)

C16_Witness ==
    /\ pipe = "lines"
    /\ input = <<AP8, UnknownType, PfTid>>
    /\ simple.stat = "ok" /\ simple.pos = 3
    /\ json.stat = "ok" /\ json.pos = 3


(***************************************************************************)
(* C17.  In every domain Add is commutative and associative over the       *)
(* wrapping counters: for snapshots a, b, c, a.Add(b) equals b.Add(a) and  *)
(* (a.Add(b)).Add(c) equals a.Add(b.Add(c)), field by field.               *)
(***************************************************************************)
C17_AddCommutesAssociates ==
    /\ alg.stat \in {"pairs", "triples", "done"} => alg.ab = alg.ba
    /\ alg.stat \in {"triples", "done"} => alg.ab_c = alg.a_bc

C17_Witness ==
    /\ alg.stat = "triples"
    /\ alg.dom = "syscall"
    /\ alg.a = [k \in {"read"} |-> MaxInt64]
    /\ alg.b = [k \in {"read", "write"} |-> 1]
    /\ alg.c = [k \in {"write"} |-> MinInt64]
    /\ alg.ab_c = [k \in {"read", "write"} |-> IF k = "read" THEN MinInt64 ELSE MinInt64 + 1]

(***************************************************************************)
(* C18.  In every domain Total is the sum of all the counters of the       *)
(* snapshot, in wrapping arithmetic, so the Total of a.Add(b) is the       *)
(* wrapped sum of the Totals of a and b.                                   *)
(***************************************************************************)
RECURSIVE FieldSum(_, _)
FieldSum(e, fields) ==
    IF fields = {} THEN 0
    ELSE LET f == CHOOSE f \in fields : TRUE IN e[f] + FieldSum(e, fields \ {f})

C18_TotalIsSum ==
    alg.stat = "done" =>
        /\ alg.ta = Int64(FieldSum(alg.a, DOMAIN alg.a))
        /\ alg.tb = Int64(FieldSum(alg.b, DOMAIN alg.b))
        /\ alg.tab = Int64(FieldSum(alg.ab, DOMAIN alg.ab))
        /\ alg.tab = Int64(alg.ta + alg.tb)

C18_Witness ==
    /\ alg.stat = "done"
    /\ alg.dom = "vfs"
    /\ alg.a = [f \in DOMAIN Event |-> MaxInt64]
    /\ alg.b = [Event EXCEPT !.FSync = 1]
    /\ alg.ta = Int64(8 * MaxInt64)
    /\ alg.tab = Int64(8 * MaxInt64 + 1)


(***************************************************************************)
(* C19.  In every count pipeline, at any point of the run, the running     *)
(* total is the pointwise sum (in wrapping arithmetic) of the snapshots of *)
(* the map messages processed so far, and intervalCount is the number of   *)
(* those messages.  The sum is taken over the set of the messages, so the  *)
(* total does not depend on the order in which they arrived.               *)
(***************************************************************************)
\* The map messages among the units the call has processed without an error.
MapsSeen(b) == {i \in 1..b.pos : IsMsg(input[i], "map") /\ ~ErrAt(b, i)}

\* The snapshots of these messages, by the index of the message.
SnapshotsOf(dom, seen) == [i \in seen |-> Fill(dom, ZeroCount(dom), input[i]).e]

\* The exact sum of counter f over the snapshots, a counter a snapshot lacks being 0.
RECURSIVE SumOver(_, _, _)
SumOver(snaps, f, seen) ==
    IF seen = {} THEN 0
    ELSE LET i == CHOOSE i \in seen : TRUE
         IN  (IF f \in DOMAIN snaps[i] THEN snaps[i][f] ELSE 0)
             + SumOver(snaps, f, seen \ {i})

PointwiseSum(zero, snaps) ==
    [f \in (DOMAIN zero) \cup UNION {DOMAIN snaps[i] : i \in DOMAIN snaps} |->
        Int64(SumOver(snaps, f, DOMAIN snaps))]

C19_TotalIsPointwiseSum ==
    /\ json.intervalCount = Cardinality(MapsSeen(json))
    /\ json.total = PointwiseSum(ZeroCount(CountDomain(pipe)),
                                 SnapshotsOf(CountDomain(pipe), MapsSeen(json)))

C19_Witness ==
    /\ pipe = "syscall count"
    /\ input = <<MapMax, MapVfs, MapMax>>
    /\ json.stat = "ok"
    /\ json.intervalCount = 3
    /\ json.total["vfs_read"] = Int64(2 * MaxInt64)
    /\ json.total["vfs_create"] = 10

(***************************************************************************)
(* C20.  In every domain, after a map message is processed, a name of its  *)
(* object that the domain does not recognize has changed no counter of the *)
(* snapshot, and no counter of the total; every counter holds the value of *)
(* the last integer member with a name the domain recognizes for it, or    *)
(* zero when there is none.                                                *)
(***************************************************************************)
\* The names of the `switch m.Name` of each domain; every name is a syscall's.
Recognizes(dom, name) ==
    CASE dom = "vfs" ->
            name \in {"vfs_create", "vfs_open", "vfs_read", "vfs_readlink", "vfs_readv",
                      "vfs_write", "vfs_writev", "vfs_fsync"}
      [] dom = "net" ->
            name \in {"tcp_connect", "tcp_accept", "tcp_close", "udp_send", "udp_recv",
                      "sock_create", "sock_close"}
      [] dom = "proc" ->
            name \in {"exec", "sched_process_exec", "fork", "sched_process_fork", "exit",
                      "sched_process_exit", "clone"}
      [] dom = "mem" ->
            name \in {"mmap", "do_mmap", "munmap", "do_munmap", "brk", "do_brk",
                      "page_fault", "handle_mm_fault"}
      [] OTHER -> TRUE

\* Counter f is the counter this name stands for.
IsCounterOf(set, f) == f \in DOMAIN set /\ set[f] = 1
CounterOf(dom, name, f) ==
    Recognizes(dom, name) /\ IsCounterOf(FillField(dom, ZeroCount(dom), name, 1), f)

\* The value of the last of the first k members that is an integer and whose
\* name stands for counter f; zero when there is none.
RECURSIVE Captured(_, _, _, _)
Captured(dom, elements, f, k) ==
    IF k = 0 THEN 0
    ELSE IF elements[k][2] = "int" /\ CounterOf(dom, elements[k][1], f)
         THEN elements[k][3]
    ELSE Captured(dom, elements, f, k - 1)

HasUnknownName(dom, u) ==
    \E k \in 1..Len(u.dmap) : u.dmap[k][2] = "int" /\ ~Recognizes(dom, u.dmap[k][1])

UnknownNameSkipped(dom, b, u) ==
    (/\ b.pos >= 1
     /\ IsMsg(u, "map") /\ u.dkind = "obj" /\ u.dkey = "@" /\ u.dvk = "obj") =>
        /\ b.stat \in {"run", "ok"}
        /\ \A f \in DOMAIN b.event : b.event[f] = Captured(dom, u.dmap, f, Len(u.dmap))
        /\ \A k \in 1..Len(u.dmap) :
              (u.dmap[k][2] = "int" /\ Recognizes(dom, u.dmap[k][1])) =>
                  \E f \in DOMAIN b.event : CounterOf(dom, u.dmap[k][1], f)
        /\ b.intervalCount = 1 =>
              /\ b.total = b.event
              /\ \E o \in TotalOrders(dom, b.total) :
                    Total(dom, b.total, o)
                        = Int64(FieldSum([f \in DOMAIN b.event |->
                                             Captured(dom, u.dmap, f, Len(u.dmap))],
                                         DOMAIN b.event))

C20_UnknownNameSkipped ==
    UnknownNameSkipped(CountDomain(pipe), json, input[IF json.pos = 0 THEN 1 ELSE json.pos])

C20_Witness ==
    /\ pipe = "vfs count"
    /\ input = <<MapVfs>>
    /\ json.stat = "ok"
    /\ HasUnknownName("vfs", input[1])
    /\ json.event = [Event EXCEPT !.Create = 10]
    /\ EventTotal(json.total) = 10


(***************************************************************************)
(* C21.  Each map message makes one new snapshot: intervalCount goes up by *)
(* one, and in the snapshot every counter for which the message has no     *)
(* member is zero, whatever the snapshots of earlier intervals held.       *)
(***************************************************************************)
\* The message has a member whose name stands for counter f.
Names(dom, u, f) == \E k \in 1..Len(u.dmap) : CounterOf(dom, u.dmap[k][1], f)

\* Every counter a snapshot of these inputs can hold.
Counters(dom) ==
    (DOMAIN ZeroCount(dom))
        \cup UNION {{u.dmap[k][1] : k \in 1..Len(u.dmap)} : u \in CountUnits}

IsSnapshotMsg(u) == IsMsg(u, "map") /\ u.dkind = "obj" /\ u.dkey = "@" /\ u.dvk = "obj"

AbsentIsZero(dom, b, u) ==
    (b.pos >= 1 /\ IsSnapshotMsg(u)) =>
        \A f \in Counters(dom) :
            ~Names(dom, u, f) => (f \notin DOMAIN b.event \/ b.event[f] = 0)

C21_FreshSnapshot ==
    /\ AbsentIsZero(CountDomain(pipe), json, input[IF json.pos = 0 THEN 1 ELSE json.pos])
    /\ json.intervalCount = Cardinality({i \in 1..json.pos : IsSnapshotMsg(input[i])})

C21_Witness ==
    /\ pipe = "net count"
    /\ input = <<MapMax, MapMixed>>
    /\ json.stat = "ok"
    /\ json.intervalCount = 2
    /\ json.event = [NetCountEvent EXCEPT !.UDPSend = 7]
    /\ json.total = [NetCountEvent EXCEPT !.UDPSend = 7, !.TCPConnect = MaxInt64]


(***************************************************************************)
(* C22.  In every domain decoder a quoted free-text field is decoded by    *)
(* position: of a raw value of two characters or more the first and the    *)
(* last character are dropped and the characters between them are stored   *)
(* unchanged, whatever they are.                                           *)
(***************************************************************************)
\* The attribute a key of a quoted free-text field is stored in ("": no such key).
QuotedField(dom, k) ==
    CASE dom = "vfs" /\ k = "path" -> "Path"
      [] dom \in {"net", "proc", "mem", "syscall"} /\ k = "comm" -> "Comm"
      [] dom = "net" /\ k = "saddr" -> "SrcAddr"
      [] dom = "net" /\ k = "daddr" -> "DstAddr"
      [] dom = "proc" /\ k = "cmdline" -> "Cmdline"
      [] OTHER -> ""

ByPosition(v) == SubSeq(v, 2, Len(v) - 1)

C22_QuotedByPosition ==
    (dec.stat = "done" /\ QuotedField(dec.dom, dec.key) # "" /\ Len(dec.val) >= 2) =>
        /\ dec.out.err = "" /\ ~dec.out.panic
        /\ dec.out.e[QuotedField(dec.dom, dec.key)] = ByPosition(dec.val)


(***************************************************************************)
(* C23.  In every domain decoder a known key of an integer attribute whose *)
(* value is no number returns an error, a negative number returns an error *)
(* for an unsigned attribute, and is accepted and stored for a signed      *)
(* attribute (rc, ret, exit_code).                                         *)
(***************************************************************************)
\* The signed attribute of a key ("": the key has none in this domain).
SignedField(dom, k) ==
    CASE dom = "vfs" /\ k = "rc" -> "ReturnValue"
      [] dom = "syscall" /\ k = "ret" -> "ReturnValue"
      [] dom = "proc" /\ k = "exit_code" -> "ExitCode"
      [] OTHER -> ""

\* The keys of the unsigned attributes of a domain.
UnsignedKeys(dom) ==
    CASE dom = "vfs" -> {"ts", "tid", "inode", "offset", "len"}
      [] dom = "net" -> {"ts", "tid", "sport", "dport", "bytes"}
      [] dom = "proc" -> {"ts", "pid", "ppid", "tid"}
      [] dom = "mem" -> {"ts", "pid", "tid", "addr", "size"}
      [] OTHER -> {"ts", "pid", "tid", "nr", "arg0", "arg1", "arg2", "arg3", "arg4", "arg5"}

Decimal(v) == v # <<>> /\ \A i \in 1..Len(v) : v[i] \in DecDigits
Negative(v) == Len(v) >= 2 /\ v[1] = "-" /\ Decimal(Drop(v, 1))
\* Text that is no number in any notation: not decimal, with or without a sign,
\* and not hexadecimal.
NonNumeric(v) ==
    /\ ~Decimal(v)
    /\ ~(Len(v) >= 2 /\ v[1] \in {"+", "-"} /\ Decimal(Drop(v, 1)))
    /\ ~(Len(v) >= 3 /\ v[1] = "0" /\ v[2] \in {"x", "X"} /\ AllInBase(Drop(v, 2), 16))

C23_IllTypedValue ==
    dec.stat = "done" =>
        /\ (dec.key \in UnsignedKeys(dec.dom) /\ (NonNumeric(dec.val) \/ Negative(dec.val))) =>
              dec.out.err # ""
        /\ (SignedField(dec.dom, dec.key) # "" /\ NonNumeric(dec.val)) => dec.out.err # ""
        /\ (SignedField(dec.dom, dec.key) # "" /\ Negative(dec.val)) =>
              /\ dec.out.err = ""
              /\ dec.out.e[SignedField(dec.dom, dec.key)] = 0 - BaseVal(Drop(dec.val, 1), 10)

C23_Witness ==
    /\ dec.stat = "done"
    /\ dec.dom = "proc"
    /\ dec.key = "exit_code"
    /\ dec.val = <<"-", "5">>
    /\ dec.out.err = ""
    /\ dec.out.e.ExitCode = 0 - 5


(***************************************************************************)
(* C24.  For a stream of attached_probes with a positive count, a time     *)
(* message, k printf messages with payloads of known vfs keys and          *)
(* well-typed values, and a lost_events message, each backend returns no   *)
(* error and delivers k records, the i-th with the attribute values of the *)
(* i-th payload.                                                           *)
(***************************************************************************)
\* The record a delivered row stands for: the row itself where the pipeline
\* decodes, the decoded payload where it hands the payload over.
RowRecord(row) == IF pipe = "vfs" THEN row ELSE Unmarshal("vfs", row, vfsEvent).e

ScenarioDelivered(b) ==
    Done(b) =>
        /\ b.stat = "ok"
        /\ \E recs \in Streams(ScenarioRecs, MaxPayloads) :
              /\ input = Scenario(recs)
              /\ Len(b.rows) = Len(recs)
              /\ \A i \in 1..Len(recs) : RowRecord(b.rows[i]) = recs[i]

C24_ScenarioDelivered == ScenarioDelivered(simple) /\ ScenarioDelivered(json)

\* C25: in the Fast-Path parser a line that starts with none of the four known
\* prefixes is skipped: the handler is not called for it and the call does not
\* end with it; the lines after it are still processed, so every printf line
\* read so far was handed to the handler and, no line of these streams being
\* in error, delivered.
KnownPrefix(line) ==
    \/ HasPrefix(line, attachedProbeKeyword)
    \/ HasPrefix(line, startTimeKeyword)
    \/ HasPrefix(line, printfKeyword)
    \/ HasPrefix(line, lostEventsKeyword)
UnknownAt(i) == ~KnownPrefix(Render(input[i]))
PrintfAt(i) == HasPrefix(Render(input[i]), printfKeyword)
CalledFor(b, i) == \E n \in 1..Len(b.calls) : b.calls[n].i = i
C25_UnknownLineSkipped ==
    /\ \A i \in 1..simple.pos :
          UnknownAt(i) => ~CalledFor(simple, i) /\ ~ErrAt(simple, i)
    /\ \A i \in 1..simple.pos : PrintfAt(i) => CalledFor(simple, i)
    /\ (\E i \in 1..simple.pos : UnknownAt(i)) =>
          Len(simple.rows) = Cardinality({j \in 1..simple.pos : PrintfAt(j)})
C25_Witness ==
    /\ simple.stat = "ok" /\ Len(input) = 3
    /\ input[1] = Garbage /\ input[2] = UnknownType /\ input[3] = PfTid
    /\ Len(simple.rows) = 1 /\ CalledFor(simple, 3)

\* C26 (as stated): res never holds more than ResCap results, the decode worker
\* takes no step while res is full, and the message loop takes no step while res
\* is empty.
ProducerWaits == ndRead' = ndRead /\ resClosed' = resClosed /\ ndEnd' = ndEnd
ConsumerWaits == json' = json /\ jHold' = jHold
Alone(dom, payload) == Unmarshal(dom, payload, ZeroEvent(dom))
IsPayload(u) == IsMsg(u, "printf") /\ u.dkind = "str"
Printfs(upto) == {i \in 1..upto : IsPayload(input[i])}
Deliveries(upto) == {i \in Printfs(upto) : Alone(pipe, input[i].dstr).err = ""}
NthOf(S, n) == CHOOSE i \in S : Cardinality({j \in S : j < i}) = n - 1
LastOf(S) == CHOOSE i \in S : \A j \in S : j <= i
FromOwnPayload(b, delivered, printfs) ==
    /\ Len(b.rows) = Cardinality(delivered)
    /\ \A n \in 1..Len(b.rows) :
          b.rows[n] = Alone(pipe, input[NthOf(delivered, n)].dstr).e
    /\ b.pool = IF printfs = {} THEN <<>>
                ELSE Alone(pipe, input[LastOf(printfs)].dstr).e
C27_PooledRecordReset ==
    pipe \in PooledDomains =>
        FromOwnPayload(json, Deliveries(json.pos), Printfs(json.pos))
C27_Witness ==
    /\ pipe = "net" /\ json.stat = "ok"
    /\ input = <<PfTid, PfComm, PfEsc>>
    /\ Len(json.rows) = 3
    /\ json.rows[1].Tid = 7 /\ json.rows[2].Tid = 0 /\ json.rows[3].Comm = <<>>
    /\ json.pool = json.rows[3]

\* C28: in every count pipeline a map message whose data has no "@" member, or
\* whose "@" is no object, makes Fill return an error and the call return it at
\* that message; the interval count and the running total are those of the
\* snapshots before it.
BadMap(u) == IsMsg(u, "map") /\ u.dkind # "absent" /\ ~IsSnapshotMsg(u)
SnapshotsBefore(i) == {j \in 1..(i - 1) : IsSnapshotMsg(input[j])}
LeftAlone(dom, b, before) ==
    /\ b.intervalCount = Cardinality(before)
    /\ b.total = PointwiseSum(ZeroCount(dom), SnapshotsOf(dom, before))
FillAborts(dom, b) ==
    /\ \A i \in 1..b.pos :
          BadMap(input[i]) =>
              /\ Fill(dom, ZeroCount(dom), input[i]).err # ""
              /\ b.stat = "err" /\ b.at = i
              /\ b.err = "failed to fill event from map data"
    /\ (b.stat = "err" /\ b.at >= 1) =>
          (BadMap(input[b.at]) /\ LeftAlone(dom, b, SnapshotsBefore(b.at)))
C28_FillErrorAborts == FillAborts(CountDomain(pipe), json)
C28_Witness ==
    /\ pipe = "proc count"
    /\ input = <<MapVfs, MapAtInt, MapMax>>
    /\ json.stat = "err" /\ json.at = 2
    /\ json.intervalCount = 1

\* C29: for every finite input the Structured call eventually returns (with nil
\* or with an error): the message loop never waits forever to hand a parsed
\* object back on reuse.
C29_EventuallyReturns == <>Done(json)

\* The state the message loop does not leave: every line has been decoded, no
\* decode is left to take an object from reuse, reuse is full, and the loop holds
\* the object of the chunk it has just processed.
C29_StuckOnReuse ==
    /\ json.stat = "run" /\ jHold /\ reuse = ReuseCap
    /\ ndRead = Len(input) /\ resClosed

\* C30: for every input line, a line cut short after one of the four known
\* prefixes included, the Fast-Path call skips the line, dispatches it or returns
\* an error; it never ends in a panic (a slice out of range).
C30_NoPanicOnTruncated == simple.stat # "panic"

\* C31: vfsEvent.HandleLogfmt returns nil or an error for every key and value,
\* a `path` with a raw value of fewer than two characters included; it never
\* ends in a panic.
C31_DecoderReturns == (dec.stat = "done" /\ dec.dom = "vfs") => ~dec.out.panic

\* C32: when reading the input fails before its end (a read error, a line too
\* long for the scanner), the Fast-Path call, ParseLines or
\* simpleParseThenAppend, returns an error: it does not report success for the
\* part it has read.
ReadFailedAt(i) == i >= 1 /\ input[i].form = "fail"
C32_ReadFailureReported ==
    (simple.stat \in {"ok", "err", "panic"} /\ ReadFailedAt(simple.pos)) => simple.stat = "err"

\* C33: the dispatch loop written inline in the vfs count command classifies
\* every message sequence as NDJSONParser.ParseStream does when driven with the
\* map handler of the domain: one returns an error if and only if the other
\* does, at the same message, and both have the same total and interval count.
\* ViaParseStream is the call of ParseStream on the messages i..to.
RECURSIVE ViaParseStream(_, _, _)
ViaParseStream(b, i, to) ==
    IF i > to \/ b.stat # "run" THEN b
    ELSE ViaParseStream(ParseStream("vfs count", [b EXCEPT !.pos = i], i, input[i]),
                        i + 1, to)
Agree(inline, via) ==
    /\ (inline.stat = "err") = (via.stat = "err")
    /\ inline.stat = "err" => inline.at = via.at
    /\ inline.total = via.total
    /\ inline.intervalCount = via.intervalCount
SameClassification(b) ==
    (b.at # 0 \/ b.stat # "err") =>
        Agree(b, ViaParseStream([NewCall("run") EXCEPT !.total = ZeroCount("vfs")], 1, b.pos))
C33_InlineLoopAsParseStream == pipe = "vfs count" => SameClassification(json)

\* C34: when a call aborts on a fatal condition at input unit k, every printf
\* record of the units before k has been delivered, in the Fast-Path parser and
\* in the Structured parser alike, also when unit k is a line that is not JSON.
\* The unit a call aborted at: the unit its error was returned for, or the first
\* line that is not JSON when the error is the decode error of that line.
FirstRaw == CHOOSE i \in 1..Len(input) :
                input[i].form = "raw" /\ \A j \in 1..(i - 1) : input[j].form # "raw"
AbortUnit(b) == IF b.at >= 1 THEN b.at ELSE FirstRaw
DeliveredBefore(b, k) ==
    Len(b.rows) >= Cardinality({i \in 1..(k - 1) : IsPayload(input[i])})
Aborted(b) ==
    /\ b.stat \in {"err", "panic"}
    /\ b.at >= 1 \/ \E i \in 1..Len(input) : input[i].form = "raw"
DeliveredBeforeAbort(b) == Aborted(b) => DeliveredBefore(b, AbortUnit(b))
C34_DeliveredBeforeAbort == DeliveredBeforeAbort(simple) /\ DeliveredBeforeAbort(json)

\* C35: a stream without any attached_probes message, its other messages being
\* well-formed, is processed to the end of the input without error by both
\* backends, every printf record delivered: the absence of the probe count is
\* never a failure.
NoProbeCount ==
    /\ input # <<>>
    /\ \A i \in 1..Len(input) : input[i] \in {TimeA, TimeB, Lost5, PfTid}
ProcessedToEnd(b) ==
    /\ b.stat = "ok"
    /\ b.pos = Len(input)
    /\ Len(b.rows) = Cardinality({i \in 1..Len(input) : IsPayload(input[i])})
C35_NoProbeCountIsFine ==
    NoProbeCount =>
        /\ (Done(simple) => ProcessedToEnd(simple))
        /\ Done(json) => ProcessedToEnd(json)
        /\ simple.stat \in {"run", "ok"} /\ json.stat \in {"run", "ok"}
C35_Witness ==
    /\ input = <<TimeA, PfTid, Lost5>>
    /\ simple.stat = "ok" /\ json.stat = "ok"
    /\ Len(simple.rows) = 1 /\ Len(json.rows) = 1

\* C36: in Fill of every domain a member of the '@' object whose value is no
\* integer (Iter.Int() returns an error) is skipped: Fill returns no error, the
\* call is not aborted at the message, and the snapshot is the one the integer
\* members alone give, so the members after it are applied and a counter only it
\* names stays zero.
IsIntEntry(m) == m[2] = "int"
HasNonInt(u) == \E k \in 1..Len(u.dmap) : ~IsIntEntry(u.dmap[k])
NonIntSkipped(dom, b, u) ==
    (b.pos >= 1 /\ IsSnapshotMsg(u) /\ HasNonInt(u)) =>
        /\ Fill(dom, ZeroCount(dom), u).err = ""
        /\ ~ErrAt(b, b.pos)
        /\ b.event = FillElements(dom, ZeroCount(dom), SelectSeq(u.dmap, IsIntEntry))
AliasPair(dom, m, f, i, j) ==
    /\ i < j
    /\ IsIntEntry(m[i]) /\ IsIntEntry(m[j])
    /\ m[i][1] # m[j][1]
    /\ CounterOf(dom, m[i][1], f) /\ CounterOf(dom, m[j][1], f)
    /\ \A k \in (j + 1)..Len(m) : ~(IsIntEntry(m[k]) /\ CounterOf(dom, m[k][1], f))
LaterAliasWins(dom, b, u) ==
    (dom \in {"proc", "mem"} /\ b.pos >= 1 /\ IsSnapshotMsg(u)) =>
        \A f \in DOMAIN ZeroCount(dom), i \in 1..Len(u.dmap), j \in 1..Len(u.dmap) :
            AliasPair(dom, u.dmap, f, i, j) => b.event[f] = u.dmap[j][3]
C37_LaterAliasWins ==
    LaterAliasWins(CountDomain(pipe), json, input[IF json.pos = 0 THEN 1 ELSE json.pos])
C37_Witness ==
    /\ pipe = "proc count"
    /\ input = <<MapMax, MapMixed>>
    /\ json.pos = 2
    /\ json.event.Exec = 5
    /\ AliasPair("proc", MapMixed.dmap, "Exec", 4, 5)
C37_WitnessMem ==
    /\ pipe = "mem count"
    /\ input = <<MapMixed>>
    /\ json.pos = 1
    /\ json.event.Mmap = 1
    /\ AliasPair("mem", MapMixed.dmap, "Mmap", 6, 7)

\* C38: in the net decoder a sport or dport value outside 0..65535 is a decode
\* error, and whenever decoding succeeds the stored port is the decimal value of
\* the payload: no value is cut down modulo 2^16.
PortField(k) == IF k = "sport" THEN "SrcPort" ELSE "DstPort"
DecimalDigits == {"0", "1", "2", "3", "4", "5", "6", "7", "8", "9"}
IsDecimal(v) == Len(v) > 0 /\ \A i \in 1..Len(v) : v[i] \in DecimalDigits
RECURSIVE DecimalValue(_)
DecimalValue(v) ==
    IF Len(v) = 0 THEN 0 ELSE DecimalValue(SubSeq(v, 1, Len(v) - 1)) * 10 + DigitVal(v[Len(v)])
InPortRange(v) == IsDecimal(v) /\ DecimalValue(v) <= MaxUint16
PortDecoded == dec.stat = "done" /\ dec.dom = "net" /\ dec.key \in {"sport", "dport"}
C38_PortInRange ==
    PortDecoded =>
        /\ ~dec.out.panic
        /\ ~InPortRange(dec.val) => dec.out.err # ""
        /\ dec.out.err = "" =>
              /\ InPortRange(dec.val)
              /\ dec.out.e[PortField(dec.key)] = DecimalValue(dec.val)
C38_Witness ==
    /\ PortDecoded
    /\ dec.key = "sport"
    /\ dec.val = <<"6", "5", "5", "3", "6">>
    /\ dec.out.err # ""
C38_WitnessStored ==
    /\ PortDecoded
    /\ dec.key = "dport"
    /\ dec.val = <<"6", "5", "5", "3", "5">>
    /\ dec.out.err = ""
    /\ dec.out.e.DstPort = MaxUint16

\* C39: in the count commands, without live mode the summary is printed exactly
\* once, after the whole stream has been processed; in live mode each interval is
\* printed as its map message is processed, with its interval index counted from
\* one, and the final total is printed only if more than one interval was seen;
\* when the stream aborts with an error no summary is printed.
IsIntervalPrint(x) == x.kind = "interval"
SnapshotsUpTo(i) == {j \in 1..i : IsSnapshotMsg(input[j])}
NthSnapshot(snaps, k) == CHOOSE i \in snaps : Cardinality({j \in snaps : j <= i}) = k
TotalPrint(b) == [kind |-> "total", e |-> b.total, n |-> b.intervalCount]
IntervalPrint(dom, snaps, k) ==
    [kind |-> "interval", e |-> Fill(dom, ZeroCount(dom), input[NthSnapshot(snaps, k)]).e,
     n |-> k]
PrintedAsDocumented(dom, b, snaps) ==
    /\ ~b.live =>
          /\ b.stat = "ok" => (b.prints = <<TotalPrint(b)>> /\ b.pos = Len(input))
          /\ b.stat # "ok" => b.prints = <<>>
    /\ b.live =>
          LET shown == SelectSeq(b.prints, IsIntervalPrint)
          IN  /\ Len(shown) = Cardinality(snaps)
              /\ \A k \in 1..Len(shown) : shown[k] = IntervalPrint(dom, snaps, k)
              /\ b.prints = shown \o (IF b.stat = "ok" /\ Cardinality(snaps) > 1
                                       THEN <<TotalPrint(b)>> ELSE <<>>)
    /\ b.stat \in {"err", "panic"} => \A k \in 1..Len(b.prints) : b.prints[k].kind # "total"
    /\ b.intervalCount = Cardinality(snaps)
C39_WitnessOneInterval ==
    /\ pipe = "vfs count"
    /\ json.live
    /\ input = <<MapVfs>>
    /\ json.stat = "ok"
    /\ Len(json.prints) = 1
C39_WitnessSummary ==
    /\ pipe = "net count"
    /\ ~json.live
    /\ input = <<MapVfs, MapMixed>>
    /\ json.stat = "ok"
    /\ json.prints = <<TotalPrint(json)>>
C39_WitnessAbort ==
    /\ pipe = "mem count"
    /\ json.live
    /\ input = <<MapVfs, MapMixed, MapNoAt>>
    /\ json.stat = "err"
    /\ Len(json.prints) = 2

====
